---- MODULE Spec2Model ----
(***************************************************************************)
(* Memory decoding and mapping core of the MEGA65 emulator                 *)
(* (targets/mega65/OLD/memory_mapper.PLANNED-OLD.c).                       *)
(*                                                                         *)
(* The whole core is one record, the "machine": the mapping state, the     *)
(* slot dispatch tables, the storage arrays (kept sparse: only the bytes   *)
(* that differ from their initial pattern) and the channel caches.  Every  *)
(* C function is an operator from machine to machine; the actions at the   *)
(* end of the module apply them to inputs drawn from small sets.           *)
(***************************************************************************)
EXTENDS Integers, Sequences, FiniteSets, TLC

VARIABLES mach,   \* the machine as built with MAP_OPCODE_PARTIAL_INVALIDATION_ON_MAPPINGS
          full,   \* the same machine built without it (MAP invalidates all CPU slots)
          ev      \* the last operation the emulated system issued, with its result

vars == <<mach, full, ev>>

-----------------------------------------------------------------------------
(* Integer helpers: C's bit operators on unsigned values.                  *)

RECURSIVE BitAnd(_, _)
BitAnd(a, b) ==
    IF a = 0 \/ b = 0 THEN 0
    ELSE (a % 2) * (b % 2) + 2 * BitAnd(a \div 2, b \div 2)

RECURSIVE BitOr(_, _)
BitOr(a, b) ==
    IF a = 0 THEN b
    ELSE IF b = 0 THEN a
    ELSE (IF (a % 2) + (b % 2) > 0 THEN 1 ELSE 0) + 2 * BitOr(a \div 2, b \div 2)

RECURSIVE BitXor(_, _)
BitXor(a, b) ==
    IF a = 0 THEN b
    ELSE IF b = 0 THEN a
    ELSE ((a + b) % 2) + 2 * BitXor(a \div 2, b \div 2)

Uint8(x)  == x % 256
Uint16(x) == x % 65536
\* unsigned int: arithmetic modulo 2^32.  The model keeps such a value as its two's
\* complement reading: a negative number n stands for the unsigned value 2^32 + n.
\* Every difference the code forms lies between -2^28 and 2^28, where that reading
\* of the difference is the difference itself.
Unsigned32(x) == x
Not8(x)   == 255 - Uint8(x)

-----------------------------------------------------------------------------
(* Program constants.                                                      *)

VIC3_ROM_MASK_8000 == 8
VIC3_ROM_MASK_A000 == 16
VIC3_ROM_MASK_C000 == 32
VIC3_ROM_MASK_E000 == 128

MAIN_RAM_SIZE       == 393216
SLOW_RAM_SIZE       == 8388608
COLOUR_RAM_SIZE     == 32768
HYPERVISOR_RAM_SIZE == 16384

BRAM_INIT_PATTERN        == 0
MEMORY_UNDECODED_PATTERN == 255

DEBUGGER_MEMORY_CHANNEL    == 4
MAX_MEMORY_CHANNELS        == 5
INVALIDATED_MEMORY_CHANNEL == 1

C64_D000_RAM_VISIBLE     == 0
C64_D000_CHARGEN_VISIBLE == 1
C64_D000_IO_VISIBLE      == 2
C64_D000_MASK            ==
    BitOr(C64_D000_RAM_VISIBLE, BitOr(C64_D000_CHARGEN_VISIBLE, C64_D000_IO_VISIBLE))
C64_KERNAL_VISIBLE       == 4
C64_BASIC_VISIBLE        == 5

\* static Uint8 c64_memlayout = -1
C64_MEMLAYOUT_RESET == 255
\* int cpu_rmw_old_data = -1
CPU_RMW_NO_DATA == -1

-----------------------------------------------------------------------------
(* Pointers and callbacks.  A data pointer is a buffer and an offset into  *)
(* it; the offset carries the bias the code puts into the pointer, so it   *)
(* may be negative.  A callback is named by the C function.                *)

Ptr(buf, off) == [buf |-> buf, off |-> off]
NULLP == Ptr("NULL", 0)
PtrAdd(p, n) == Ptr(p.buf, p.off + n)

Fn(name) == [name |-> name, iomode |-> 0, page |-> 0]
NULLF == Fn("NULL")
legacy_io_readers_tab(iomode, page) ==
    [name |-> "legacy_io_reader", iomode |-> iomode, page |-> page]
legacy_io_writers_tab(iomode, page) ==
    [name |-> "legacy_io_writer", iomode |-> iomode, page |-> page]

BufSize(buf) ==
    CASE buf = "main_ram"       -> MAIN_RAM_SIZE
      [] buf = "slow_ram"       -> SLOW_RAM_SIZE
      [] buf = "hypervisor_ram" -> HYPERVISOR_RAM_SIZE
      [] buf = "colour_ram"     -> COLOUR_RAM_SIZE
      [] buf = "c64_colour_ram" -> 2048
      [] buf = "black_hole"     -> 256
      [] buf = "white_hole_00"  -> 256
      [] buf = "white_hole_FF"  -> 256
      [] OTHER                  -> 0

\* The content of a storage array after memory_init().
InitByte(buf, idx) ==
    CASE buf = "white_hole_FF"  -> 255
      [] buf = "c64_colour_ram" -> BitOr(BitAnd(BRAM_INIT_PATTERN, 15), 240)
      [] OTHER                  -> BRAM_INIT_PATTERN

-----------------------------------------------------------------------------
(* The machine's log: what the last operation did to the storage arrays    *)
(* and which callbacks of other subsystems it reached.                     *)

LogEntry(e, s, a, d) == [e |-> e, s |-> s, a |-> a, d |-> d]
Logged(m, e, s, a, d) == [m EXCEPT !.log = Append(@, LogEntry(e, s, a, d))]

\* No byte differs from its initial pattern.
EmptyMem == [c \in {} |-> 0]

Peek(m, buf, idx) ==
    IF <<buf, idx>> \in DOMAIN m.mem THEN m.mem[<<buf, idx>>] ELSE InitByte(buf, idx)

Poke(m, buf, idx, v) ==
    LET c == <<buf, idx>>
        d == IF v = InitByte(buf, idx) THEN DOMAIN m.mem \ {c} ELSE DOMAIN m.mem \cup {c}
    IN  [m EXCEPT !.mem = [k \in d |-> IF k = c THEN v ELSE m.mem[k]]]

\* An access outside its array is undefined.  m.stray is the outcome this run of
\* the build produces: -1, the access faults and the program ends (ub); a byte b,
\* the access goes through to whatever object lies there: a read yields b, a
\* write overwrites a byte that belongs to something else (wild).
Faults(m) == m.stray < 0

\* *(p + n): a read through a data pointer.
Load(m, p, n) ==
    LET idx == p.off + n IN
    IF idx >= 0 /\ idx < BufSize(p.buf)
    THEN [m |-> Logged(m, "load", p.buf, idx, Peek(m, p.buf, idx)),
          data |-> Peek(m, p.buf, idx)]
    ELSE IF Faults(m)
    THEN [m |-> [Logged(m, "load_out_of_bounds", p.buf, idx, 0) EXCEPT !.ub = TRUE],
          data |-> 0]
    ELSE [m |-> Logged(m, "load_out_of_bounds", p.buf, idx, m.stray), data |-> m.stray]

\* *(p + n) = v: a write through a data pointer.
Store(m, p, n, v) ==
    LET idx == p.off + n IN
    IF idx >= 0 /\ idx < BufSize(p.buf)
    THEN Logged(Poke(m, p.buf, idx, Uint8(v)), "store", p.buf, idx, Uint8(v))
    ELSE IF Faults(m)
    THEN [Logged(m, "store_out_of_bounds", p.buf, idx, Uint8(v)) EXCEPT !.ub = TRUE]
    ELSE [Logged(m, "store_out_of_bounds", p.buf, idx, Uint8(v)) EXCEPT !.wild = TRUE]

-----------------------------------------------------------------------------
(* The physical region table.                                              *)

Region(b, e, rd, rf, wd, wf, pol) ==
    [begin |-> b, end |-> e, rd_data |-> rd, rd_func |-> rf,
     wr_data |-> wd, wr_func |-> wf, policy |-> pol]

DEFINE_UNDECODED_AREA(b, e) ==
    Region(b, e, NULLP, Fn("undecoded_reader"), NULLP, Fn("undecoded_writer"),
           "MEMDEC_NORMAL_POLICY")
DEFINE_IGNORED_AREA(b, e) ==
    Region(b, e, Ptr("white_hole_FF", 0), NULLF, Ptr("black_hole", 0), NULLF,
           "MEMDEC_NORMAL_POLICY")

decoder_table == <<
    Region(0, \hFF, Ptr("main_ram", 0), NULLF, NULLP, Fn("zero_page_writer"),
           "MEMDEC_NORMAL_POLICY"),
    Region(\h100, \h1F7FF, Ptr("main_ram", \h100), NULLF, Ptr("main_ram", \h100), NULLF,
           "MEMDEC_NORMAL_POLICY"),
    Region(\h1F800, \h1FFFF, Ptr("main_ram", \h1F800), NULLF, NULLP,
           Fn("colour_ram_head_writer"), "MEMDEC_NORMAL_POLICY"),
    Region(\h20000, \h3FFFF, Ptr("main_ram", \h20000), NULLF, Ptr("main_ram", \h20000),
           NULLF, "MEMDEC_ROM_POLICY"),
    Region(\h40000, MAIN_RAM_SIZE - \h40001, Ptr("main_ram", \h40000), NULLF,
           Ptr("main_ram", \h40000), NULLF, "MEMDEC_NORMAL_POLICY"),
    DEFINE_UNDECODED_AREA(MAIN_RAM_SIZE, \h3FFFFFF),
    DEFINE_IGNORED_AREA(\h4000000, \h7FFFFFF),
    Region(\h8000000, \h8000000 + SLOW_RAM_SIZE - 1, Ptr("slow_ram", 0), NULLF,
           Ptr("slow_ram", 0), NULLF, "MEMDEC_NORMAL_POLICY")
>>

\* Positions in decoder_table are 1..Len; a position outside is a pointer that
\* left the table.
InTable(p) == p >= 1 /\ p <= Len(decoder_table)

\* while (lin < p->begin) p--;
RECURSIVE ScanDown(_, _)
ScanDown(lin, p) ==
    IF InTable(p) /\ lin < decoder_table[p].begin THEN ScanDown(lin, p - 1) ELSE p

\* while (lin > p->end) p++;
RECURSIVE ScanUp(_, _)
ScanUp(lin, p) ==
    IF InTable(p) /\ lin > decoder_table[p].end THEN ScanUp(lin, p + 1) ELSE p

\* MEMDEC_BIDIRECTIONAL_TABLE_SCAN
FindRegion(lin, p) == ScanUp(lin, ScanDown(lin, p))

-----------------------------------------------------------------------------
(* The slot dispatch table: mem_rd_data_p, mem_rd_func_p, mem_wr_data_p,   *)
(* mem_wr_func_p, mem_rd_ofs and mem_wr_ofs, one entry per CPU slot        *)
(* (0..255) and per memory channel (256..260).  An entry is read only by   *)
(* an access to its own slot, so a machine keeps the entries of the slots  *)
(* its specification accesses (DOMAIN m.tab); the loops over slot ranges   *)
(* update those of them that lie in the range.  "by" and "lin" are history *)
(* fields: the helper that filled the entry last and, for the linear       *)
(* decoder, the physical page it was called with.                          *)

CpuSlots  == 0 .. 255
AllSlots  == 0 .. (MAX_MEMORY_CHANNELS + 256 - 1)
Channels  == 0 .. (MAX_MEMORY_CHANNELS - 1)

SlotEntry(rd, rf, wd, wf, ro, wo, by, lin) ==
    [mem_rd_data_p |-> rd, mem_rd_func_p |-> rf, mem_wr_data_p |-> wd,
     mem_wr_func_p |-> wf, mem_rd_ofs |-> ro, mem_wr_ofs |-> wo, by |-> by, lin |-> lin]

\* Static storage before memory_init(): all pointers NULL, all offsets 0.
ZeroEntry == SlotEntry(NULLP, NULLF, NULLP, NULLF, 0, 0, "none", -1)

-----------------------------------------------------------------------------
(* linear_memory_access_decoder                                            *)

\* p->rd_data ? p->rd_data - slot_ofs + lin - p->begin : NULL
BiasedPtr(data, slot_ofs, lin, begin) ==
    IF data # NULLP THEN PtrAdd(data, lin - slot_ofs - begin) ELSE NULLP

\* case MEMDEC_NORMAL_POLICY
NormalPolicyEntry(e, r, slot_ofs, lin) ==
    [e EXCEPT !.mem_rd_data_p = BiasedPtr(r.rd_data, slot_ofs, lin, r.begin),
              !.mem_rd_func_p = r.rd_func,
              !.mem_wr_data_p = BiasedPtr(r.wr_data, slot_ofs, lin, r.begin),
              !.mem_wr_func_p = r.wr_func]

\* case MEMDEC_ROM_POLICY
RomPolicyEntry(m, e, r, slot_ofs, lin) ==
    IF m.rom_protect
    THEN [e EXCEPT !.mem_rd_data_p = BiasedPtr(r.rd_data, slot_ofs, lin, r.begin),
                   !.mem_rd_func_p = r.rd_func,
                   !.mem_wr_data_p = IF r.rd_data # NULLP
                                     THEN Ptr("black_hole", lin - slot_ofs) ELSE NULLP,
                   !.mem_wr_func_p = r.wr_func]
    ELSE NormalPolicyEntry(e, r, slot_ofs, lin)

\* case MEMDEC_HYPERVISOR_POLICY
HypervisorPolicyEntry(m, e, r, slot_ofs, lin) ==
    IF m.in_hypervisor
    THEN NormalPolicyEntry(e, r, slot_ofs, lin)
    ELSE [e EXCEPT !.mem_rd_data_p = Ptr("white_hole_FF", 0 - slot_ofs),
                   !.mem_wr_data_p = Ptr("black_hole", 0 - slot_ofs)]

\* switch (p->policy): the slot entry under the policy of region r.
LinearPolicyEntry(m, e, r, slot_ofs, lin) ==
    CASE r.policy = "MEMDEC_NORMAL_POLICY"     -> NormalPolicyEntry(e, r, slot_ofs, lin)
      [] r.policy = "MEMDEC_ROM_POLICY"        -> RomPolicyEntry(m, e, r, slot_ofs, lin)
      [] r.policy = "MEMDEC_HYPERVISOR_POLICY" -> HypervisorPolicyEntry(m, e, r, slot_ofs, lin)
      [] OTHER                                 -> e

\* default: FATAL
LinearPolicyUnknown(r) ==
    r.policy \notin {"MEMDEC_NORMAL_POLICY", "MEMDEC_ROM_POLICY", "MEMDEC_HYPERVISOR_POLICY"}

\* The body of the decoder after the scan found region r at position q.
LinearFill(m, lin, slot, slot_ofs, q, r) ==
    [m |-> [m EXCEPT !.tab[slot] =
                         LinearPolicyEntry(m, [@ EXCEPT !.mem_rd_ofs = Unsigned32(lin - r.begin),
                                                        !.mem_wr_ofs = Unsigned32(lin - r.begin),
                                                        !.by = "linear", !.lin = lin],
                                           r, slot_ofs, lin),
                     !.exited = @ \/ LinearPolicyUnknown(r)],
     p |-> q]

\* What the scan reads behind the table when it does not fault: zeroed bytes up
\* to an entry whose end stops the loop, all its pointers NULL.
OffTableRegion(lin) == Region(0, lin, NULLP, NULLF, NULLP, NULLF, "MEMDEC_NORMAL_POLICY")

\* The decoder after the scan stopped at position q.
LinearAt(m, lin, slot, slot_ofs, q) ==
    IF ~InTable(q)
    THEN \* the scan left the table: p->begin and p->end are not table entries
         IF Faults(m)
         THEN [m |-> [Logged(m, "scan_left_table", "", slot, lin) EXCEPT !.ub = TRUE],
               p |-> q]
         ELSE LinearFill(Logged(m, "scan_left_table", "", slot, lin), lin, slot, slot_ofs,
                         q, OffTableRegion(lin))
    ELSE LinearFill(m, lin, slot, slot_ofs, q, decoder_table[q])

\* Returns the machine with the slot filled, and the table position found.
linear_memory_access_decoder(m, lin, slot, p) ==
    LinearAt(m, lin, slot, IF slot < 256 THEN slot * 256 ELSE 0, FindRegion(lin, p))

-----------------------------------------------------------------------------
(* Helpers of the CPU decoder: each fills one slot entry.                  *)

\* Faulty variant: the write pointer follows the read pointer into the ROM shadow.
c64_map_rom_XXXX_IntoRom(m, e, slot) ==
    [e EXCEPT !.mem_rd_data_p = Ptr("main_ram", \h20000),
              !.mem_wr_data_p = IF m.rom_protect THEN Ptr("black_hole", 0 - slot * 256)
                                ELSE Ptr("main_ram", \h20000),
              !.by = "c64_map_rom", !.lin = -1]

c64_map_rom_XXXX(m, e, slot) ==
    [e EXCEPT !.mem_rd_data_p = Ptr("main_ram", \h20000),
              !.mem_wr_data_p = Ptr("main_ram", 0),
              !.by = "c64_map_rom", !.lin = -1]

c65_map_rom_C000(m, e, slot) ==
    [e EXCEPT !.mem_rd_data_p = Ptr("main_ram", \h20000),
              !.mem_wr_data_p = IF m.rom_protect THEN Ptr("black_hole", 0 - slot * 256)
                                ELSE Ptr("main_ram", \h20000),
              !.by = "c65_map_rom", !.lin = -1]

c65_map_rom_XXXX(m, e, slot) ==
    [e EXCEPT !.mem_rd_data_p = Ptr("main_ram", \h30000),
              !.mem_wr_data_p = IF m.rom_protect THEN Ptr("black_hole", 0 - slot * 256)
                                ELSE Ptr("main_ram", \h30000),
              !.by = "c65_map_rom", !.lin = -1]

\* A mapping that gives slot 0 the direct write pointer of every other slot.
c6x_map_ram_Direct(m, e, slot) ==
    [e EXCEPT !.mem_rd_data_p = Ptr("main_ram", 0),
              !.mem_wr_data_p = Ptr("main_ram", 0),
              !.by = "c6x_map_ram", !.lin = -1]

c6x_map_ram(m, e, slot) ==
    IF slot # 0
    THEN [e EXCEPT !.mem_rd_data_p = Ptr("main_ram", 0),
                   !.mem_wr_data_p = Ptr("main_ram", 0),
                   !.by = "c6x_map_ram", !.lin = -1]
    ELSE [e EXCEPT !.mem_rd_data_p = Ptr("main_ram", 0),
                   !.mem_wr_data_p = NULLP,
                   !.mem_wr_func_p = Fn("zero_page_writer"),
                   !.by = "c6x_map_ram", !.lin = -1]

map_legacy_io(m, e, slot) ==
    [e EXCEPT !.mem_rd_data_p = NULLP,
              !.mem_wr_data_p = NULLP,
              !.mem_rd_func_p = legacy_io_readers_tab(m.vic_iomode, slot % 16),
              !.mem_wr_func_p = legacy_io_writers_tab(m.vic_iomode, slot % 16),
              !.by = "map_legacy_io", !.lin = -1]

\* DO_FULL_LEGACY_MAPPINGS: for (i = first_slot; i <= last_slot; i++) helper(i)
\* The macro's third argument names the helper called on each slot.
LegacyHelper(helper, m, e, slot) ==
    CASE helper = "c64_map_rom_XXXX" -> c64_map_rom_XXXX(m, e, slot)
      [] helper = "c65_map_rom_C000" -> c65_map_rom_C000(m, e, slot)
      [] helper = "c65_map_rom_XXXX" -> c65_map_rom_XXXX(m, e, slot)
      [] helper = "c6x_map_ram"      -> c6x_map_ram(m, e, slot)
      [] helper = "map_legacy_io"    -> map_legacy_io(m, e, slot)

DO_LEGACY_MAPPING(m, first_slot, last_slot, helper) ==
    [m EXCEPT !.tab = [i \in DOMAIN m.tab |->
                          IF i >= first_slot /\ i <= last_slot
                          THEN LegacyHelper(helper, m, m.tab[i], i) ELSE m.tab[i]]]

\* The decoder's second argument is dectab_last_p + page4k: it leaves the table
\* position it found there.
KeepLastP(r, page4k) == [r.m EXCEPT !.dectab_last_p[page4k] = r.p]

DO_MAP_LO(m, slot) ==
    KeepLastP(linear_memory_access_decoder(
                  m, m.map_megabyte_low + BitAnd(m.map_offset_low + slot * 256, \hFFF00),
                  slot, m.dectab_last_p[slot \div 16]),
              slot \div 16)

DO_MAP_HI(m, slot) ==
    KeepLastP(linear_memory_access_decoder(
                  m, m.map_megabyte_high + BitAnd(m.map_offset_high + slot * 256, \hFFF00),
                  slot, m.dectab_last_p[slot \div 16]),
              slot \div 16)

\* Faulty variant: the hypervisor test is missing.
Vic3RomVisible_InHypervisor(m, mask) == BitAnd(m.vic_registers_30, mask) # 0

\* (vic_registers[0x30] & mask) && (!in_hypervisor)
Vic3RomVisible(m, mask) == BitAnd(m.vic_registers_30, mask) # 0 /\ ~m.in_hypervisor

MapMaskBit(m, bit) == BitAnd(m.map_mask, bit) # 0
LayoutBit(m, bit)  == BitAnd(m.c64_memlayout, bit) # 0

\* The low region: cases 0x0 .. 0x7 of the switch, two 4K pages per MAP block.
DecodeLow(m, slot) ==
    LET blk == slot \div 32 IN
    IF MapMaskBit(m, 2 ^ blk)
    THEN DO_MAP_LO(m, slot)
    ELSE DO_LEGACY_MAPPING(m, blk * 32, blk * 32 + 31, "c6x_map_ram")

\* case 0x8, 0x9
Decode8000(m, slot) ==
    IF Vic3RomVisible(m, VIC3_ROM_MASK_8000)
    THEN DO_LEGACY_MAPPING(m, \h80, \h9F, "c65_map_rom_XXXX")
    ELSE IF MapMaskBit(m, \h10)
    THEN DO_MAP_HI(m, slot)
    ELSE DO_LEGACY_MAPPING(m, \h80, \h9F, "c6x_map_ram")

\* case 0xA, 0xB
DecodeA000(m, slot) ==
    IF Vic3RomVisible(m, VIC3_ROM_MASK_A000)
    THEN DO_LEGACY_MAPPING(m, \hA0, \hBF, "c65_map_rom_XXXX")
    ELSE IF MapMaskBit(m, \h20)
    THEN DO_MAP_HI(m, slot)
    ELSE IF LayoutBit(m, C64_BASIC_VISIBLE)
    THEN DO_LEGACY_MAPPING(m, \hA0, \hBF, "c64_map_rom_XXXX")
    ELSE DO_LEGACY_MAPPING(m, \hA0, \hBF, "c6x_map_ram")

\* case 0xC
DecodeC000(m, slot) ==
    IF Vic3RomVisible(m, VIC3_ROM_MASK_C000)
    THEN DO_LEGACY_MAPPING(m, \hC0, \hCF, "c65_map_rom_C000")
    ELSE IF MapMaskBit(m, \h40)
    THEN DO_MAP_HI(m, slot)
    ELSE DO_LEGACY_MAPPING(m, \hC0, \hCF, "c6x_map_ram")

\* case 0xD
DecodeD000(m, slot) ==
    IF MapMaskBit(m, \h40)
    THEN [DO_MAP_HI(m, slot) EXCEPT !.legacy_io_is_mapped = FALSE]
    ELSE IF LayoutBit(m, C64_D000_CHARGEN_VISIBLE)
    THEN [DO_LEGACY_MAPPING(m, \hD0, \hDF, "c64_map_rom_XXXX")
             EXCEPT !.legacy_io_is_mapped = FALSE]
    ELSE IF LayoutBit(m, C64_D000_IO_VISIBLE)
    THEN [DO_LEGACY_MAPPING(m, \hD0, \hDF, "map_legacy_io")
             EXCEPT !.legacy_io_is_mapped = TRUE]
    ELSE [DO_LEGACY_MAPPING(m, \hD0, \hDF, "c6x_map_ram")
             EXCEPT !.legacy_io_is_mapped = FALSE]

\* case 0xE, 0xF
DecodeE000(m, slot) ==
    IF Vic3RomVisible(m, VIC3_ROM_MASK_E000)
    THEN DO_LEGACY_MAPPING(m, \hE0, \hFF, "c65_map_rom_XXXX")
    ELSE IF MapMaskBit(m, \h80)
    THEN DO_MAP_HI(m, slot)
    ELSE IF LayoutBit(m, C64_KERNAL_VISIBLE)
    THEN DO_LEGACY_MAPPING(m, \hE0, \hFF, "c64_map_rom_XXXX")
    ELSE DO_LEGACY_MAPPING(m, \hE0, \hFF, "c6x_map_ram")

\* switch (slot >> 4)
DecodeSwitch(m, slot, page4k) ==
    CASE page4k <= 7             -> DecodeLow(m, slot)
      [] page4k \in {8, 9}       -> Decode8000(m, slot)
      [] page4k \in {10, 11}     -> DecodeA000(m, slot)
      [] page4k = 12             -> DecodeC000(m, slot)
      [] page4k = 13             -> DecodeD000(m, slot)
      [] OTHER                   -> DecodeE000(m, slot)

cpu_memory_access_decoder(m, slot) ==
    DecodeSwitch(Logged(m, "decode", "", slot, 0), slot, slot \div 16)

-----------------------------------------------------------------------------
(* Invalidation.                                                           *)

InvalidEntry(e) ==
    [e EXCEPT !.mem_rd_data_p = NULLP,
              !.mem_rd_func_p = Fn("memory_resolver_reader"),
              !.mem_wr_data_p = NULLP,
              !.mem_wr_func_p = Fn("memory_resolver_writer"),
              !.by = "invalidated", !.lin = -1]

\* A loop that stops before last_slot.
memory_invalidate_mapper_HalfOpen(m, start_slot, last_slot) ==
    [m EXCEPT !.tab = [i \in DOMAIN m.tab |->
                          IF i >= start_slot /\ i < last_slot
                          THEN InvalidEntry(m.tab[i]) ELSE m.tab[i]]]

memory_invalidate_mapper(m, start_slot, last_slot) ==
    [m EXCEPT !.tab = [i \in DOMAIN m.tab |->
                          IF i >= start_slot /\ i <= last_slot
                          THEN InvalidEntry(m.tab[i]) ELSE m.tab[i]]]

memory_invalidate_channels(m) ==
    [m EXCEPT !.memory_channel_last_usage    = [a \in Channels |-> INVALIDATED_MEMORY_CHANNEL],
              !.memory_channel_last_dectab_p = [a \in Channels |-> 1]]

memory_invalidate_mapper_all(m) ==
    [memory_invalidate_channels(memory_invalidate_mapper(m, 0, \hFF))
        EXCEPT !.legacy_io_is_mapped = FALSE]

-----------------------------------------------------------------------------
(* The CPU I/O port.                                                       *)

c64_memlayout_table_by_memcfgreg == <<
    C64_D000_RAM_VISIBLE,
    C64_D000_CHARGEN_VISIBLE,
    BitOr(C64_D000_CHARGEN_VISIBLE, C64_KERNAL_VISIBLE),
    BitOr(C64_D000_CHARGEN_VISIBLE, BitOr(C64_KERNAL_VISIBLE, C64_BASIC_VISIBLE)),
    C64_D000_RAM_VISIBLE,
    C64_D000_IO_VISIBLE,
    BitOr(C64_D000_IO_VISIBLE, C64_KERNAL_VISIBLE),
    BitOr(C64_D000_IO_VISIBLE, BitOr(C64_KERNAL_VISIBLE, C64_BASIC_VISIBLE))
>>

\* (cpu_io_port[1] | (~cpu_io_port[0])) & 7
MemCfgIndex(port) == BitAnd(BitOr(port[1], Not8(port[0])), 7)

\* The three conditional invalidations of update_cpu_io_port, in source order.
PortInvalidateBasic(m, changed) ==
    IF BitAnd(changed, C64_BASIC_VISIBLE) # 0 /\ ~MapMaskBit(m, \h20)
    THEN memory_invalidate_mapper(m, \hA0, \hBF) ELSE m

PortInvalidateD000(m, changed) ==
    IF BitAnd(changed, C64_D000_MASK) # 0 /\ ~MapMaskBit(m, \h40)
    THEN [memory_invalidate_mapper(m, \hD0, \hDF) EXCEPT !.legacy_io_is_mapped = FALSE]
    ELSE m

PortInvalidateKernal(m, changed) ==
    IF BitAnd(changed, C64_KERNAL_VISIBLE) # 0 /\ ~MapMaskBit(m, \h80)
    THEN memory_invalidate_mapper(m, \hE0, \hFF) ELSE m

PortInvalidate(m, changed) ==
    PortInvalidateKernal(PortInvalidateD000(PortInvalidateBasic(m, changed), changed), changed)

\* if (desired != c64_memlayout) { ... }
PortLayout(m, desired, update_mapper) ==
    IF desired # m.c64_memlayout
    THEN [(IF update_mapper THEN PortInvalidate(m, BitXor(desired, m.c64_memlayout)) ELSE m)
             EXCEPT !.c64_memlayout = desired]
    ELSE m

\* An update that indexes the table by the data register alone.
update_cpu_io_port_DataOnly(m, update_mapper) ==
    PortLayout(Store(Store(m, Ptr("main_ram", 0), 0, m.cpu_io_port[0]),
                     Ptr("main_ram", 0), 1, m.cpu_io_port[1]),
               c64_memlayout_table_by_memcfgreg[BitAnd(m.cpu_io_port[1], 7) + 1],
               update_mapper)

update_cpu_io_port(m, update_mapper) ==
    PortLayout(Store(Store(m, Ptr("main_ram", 0), 0, m.cpu_io_port[0]),
                     Ptr("main_ram", 0), 1, m.cpu_io_port[1]),
               c64_memlayout_table_by_memcfgreg[MemCfgIndex(m.cpu_io_port) + 1],
               update_mapper)

\* A writer that takes 64 and 65 for force-fast at address 1 too.
zero_page_writer_BothPorts(m, slot, addr, data) ==
    IF BitAnd(addr, \hFE) # 0
    THEN Store(m, Ptr("main_ram", 0), BitAnd(addr, \hFF), data)
    ELSE IF BitAnd(data, \hFE) = 64
         THEN IF m.force_fast # BitAnd(data, 1)
              THEN Logged([m EXCEPT !.force_fast = BitAnd(data, 1)],
                          "machine_set_speed", "", 0, 0)
              ELSE m
         ELSE update_cpu_io_port([m EXCEPT !.cpu_io_port[BitAnd(addr, 1)] = data], TRUE)

zero_page_writer(m, slot, addr, data) ==
    IF BitAnd(addr, \hFE) # 0
    THEN Store(m, Ptr("main_ram", 0), BitAnd(addr, \hFF), data)
    ELSE IF BitAnd(data, \hFE) = 64 /\ BitAnd(addr, 1) = 0
         THEN IF m.force_fast # BitAnd(data, 1)
              THEN Logged([m EXCEPT !.force_fast = BitAnd(data, 1)],
                          "machine_set_speed", "", 0, 0)
              ELSE m
         ELSE update_cpu_io_port([m EXCEPT !.cpu_io_port[BitAnd(addr, 1)] = data], TRUE)

\* The three stores at offset ofs of the first 2K of the colour RAM.
ColourRamStores(m, ofs, data) ==
    Store(Store(Store(m, Ptr("main_ram", \h1F800), ofs, data),
                Ptr("colour_ram", 0), ofs, data),
          Ptr("c64_colour_ram", 0), ofs, BitOr(BitAnd(data, \h0F), \hF0))

\* A writer that keeps no shadow: the byte goes to main_ram alone.
colour_ram_head_writer_MainOnly(m, slot, addr, data) ==
    Store(m, Ptr("main_ram", \h1F800), m.tab[slot].mem_wr_ofs + BitAnd(addr, \hFF), data)

colour_ram_head_writer(m, slot, addr, data) ==
    ColourRamStores(m, m.tab[slot].mem_wr_ofs + BitAnd(addr, \hFF), data)

-----------------------------------------------------------------------------
(* Undecoded areas.  m.question_answer is what the user will pick in the   *)
(* next QUESTION_WINDOW (0 EXIT, 1 Ignore now, 2 Ignore all, 3 Silent).    *)

\* A diagnostic that asks the user whatever the policy is.
UndecodedAsk_Always(m, addr, op_type) ==
    Logged([m EXCEPT !.skip_unhandled_mem = m.question_answer],
           "QUESTION_WINDOW", op_type, addr, 0)

\* if (skip_unhandled_mem <= 1) skip_unhandled_mem = QUESTION_WINDOW(...)
UndecodedAsk(m, addr, op_type) ==
    IF m.skip_unhandled_mem <= 1
    THEN Logged([m EXCEPT !.skip_unhandled_mem = m.question_answer],
                "QUESTION_WINDOW", op_type, addr, 0)
    ELSE m

\* switch (skip_unhandled_mem): case 0 exits, the others go on.
UndecodedAct(m, addr, op_type) ==
    [Logged(m, "undecoded", op_type, addr, m.skip_unhandled_mem)
        EXCEPT !.exited = @ \/ m.skip_unhandled_mem = 0]

undecoded_interaction(m, addr, op_type) ==
    UndecodedAct(UndecodedAsk(m, addr, op_type), addr, op_type)

\* A reader that answers an open bus: 0x00.
undecoded_reader_OpenBus(m, slot, addr) ==
    [m    |-> undecoded_interaction(m, m.tab[slot].mem_rd_ofs + BitAnd(addr, \hFF), "READ"),
     data |-> 0]

undecoded_reader(m, slot, addr) ==
    [m    |-> undecoded_interaction(m, m.tab[slot].mem_rd_ofs + BitAnd(addr, \hFF), "READ"),
     data |-> MEMORY_UNDECODED_PATTERN]

undecoded_writer(m, slot, addr, data) ==
    undecoded_interaction(m, m.tab[slot].mem_wr_ofs + BitAnd(addr, \hFF), "WRITE")

-----------------------------------------------------------------------------
(* The legacy I/O callbacks belong to the I/O subsystem.  m.io_in is the   *)
(* byte the device will answer to the next read.                           *)

legacy_io_reader(m, f, slot, addr) ==
    [m |-> Logged(m, "legacy_io_reader", "", addr, m.io_in), data |-> m.io_in]

legacy_io_writer(m, f, slot, addr, data) ==
    Logged(m, "legacy_io_writer", "", addr, Uint8(data))

-----------------------------------------------------------------------------
(* Slot dispatch.                                                          *)

RECURSIVE cpu_read(_, _)
RECURSIVE cpu_write(_, _, _)

\* A resolver that decodes its slot again before the access.
memory_resolver_reader_Twice(m, slot, addr) ==
    cpu_read(cpu_memory_access_decoder(cpu_memory_access_decoder(m, slot), slot), addr)

memory_resolver_reader(m, slot, addr) ==
    cpu_read(cpu_memory_access_decoder(m, slot), addr)

memory_resolver_writer(m, slot, addr, data) ==
    cpu_write(cpu_memory_access_decoder(m, slot), addr, data)

\* mem_rd_func_p[slot](slot, addr)
CallReadFunc(m, f, slot, addr) ==
    CASE f.name = "memory_resolver_reader" -> memory_resolver_reader(m, slot, addr)
      [] f.name = "undecoded_reader"       -> undecoded_reader(m, slot, addr)
      [] f.name = "legacy_io_reader"       -> legacy_io_reader(m, f, slot, addr)
      [] OTHER -> \* a call through a NULL function pointer
                  [m |-> [Logged(m, "call_null", "READ", addr, 0) EXCEPT !.ub = TRUE],
                   data |-> 0]

\* A write callback is entered: m.rmw_seen keeps what it finds in cpu_rmw_old_data.
Entered(m) == [m EXCEPT !.rmw_seen = Append(@, m.cpu_rmw_old_data)]

\* mem_wr_func_p[slot](slot, addr, data)
CallWriteFunc(m, f, slot, addr, data) ==
    CASE f.name = "memory_resolver_writer" ->
             memory_resolver_writer(Entered(m), slot, addr, data)
      [] f.name = "zero_page_writer"       -> zero_page_writer(Entered(m), slot, addr, data)
      [] f.name = "colour_ram_head_writer" ->
             colour_ram_head_writer(Entered(m), slot, addr, data)
      [] f.name = "undecoded_writer"       -> undecoded_writer(Entered(m), slot, addr, data)
      [] f.name = "legacy_io_writer"       -> legacy_io_writer(Entered(m), f, slot, addr, data)
      [] OTHER -> [Logged(m, "call_null", "WRITE", addr, 0) EXCEPT !.ub = TRUE]

\* A machine that exited or ran into undefined behaviour executes nothing more.
Stopped(m) == m.ub \/ m.exited

cpu_read(m, addr) ==
    LET slot == addr \div 256 IN
    IF Stopped(m) THEN [m |-> m, data |-> 0]
    ELSE IF m.tab[slot].mem_rd_data_p # NULLP
    THEN Load(m, m.tab[slot].mem_rd_data_p, addr)
    ELSE CallReadFunc(m, m.tab[slot].mem_rd_func_p, slot, addr)

cpu_write(m, addr, data) ==
    LET slot == addr \div 256 IN
    IF Stopped(m) THEN m
    ELSE IF m.tab[slot].mem_wr_data_p # NULLP
    THEN Store(m, m.tab[slot].mem_wr_data_p, addr, data)
    ELSE CallWriteFunc(m, m.tab[slot].mem_wr_func_p, slot, addr, data)

-----------------------------------------------------------------------------
(* Read-modify-write and quad-byte accesses.                               *)

\* cpu_rmw_old_data = -1 after the callback returned; a callback that exits the
\* program does not return.
RmwReturn(m) ==
    IF Stopped(m) THEN m ELSE [m EXCEPT !.cpu_rmw_old_data = CPU_RMW_NO_DATA]

\* A cpu_write_rmw that leaves the old data behind after the callback.
cpu_write_rmw_NoReset(m, addr, old_data, new_data) ==
    IF Stopped(m) THEN m
    ELSE IF m.tab[addr \div 256].mem_wr_data_p # NULLP
    THEN Store(m, m.tab[addr \div 256].mem_wr_data_p, addr, new_data)
    ELSE CallWriteFunc([m EXCEPT !.cpu_rmw_old_data = old_data],
                       m.tab[addr \div 256].mem_wr_func_p, addr \div 256, addr, new_data)

cpu_write_rmw(m, addr, old_data, new_data) ==
    IF Stopped(m) THEN m
    ELSE IF m.tab[addr \div 256].mem_wr_data_p # NULLP
    THEN Store(m, m.tab[addr \div 256].mem_wr_data_p, addr, new_data)
    ELSE RmwReturn(CallWriteFunc([m EXCEPT !.cpu_rmw_old_data = old_data],
                                 m.tab[addr \div 256].mem_wr_func_p, addr \div 256, addr,
                                 new_data))

\* A Uint32 is kept as its two's complement reading (see Unsigned32).
\* (Uint32)(b << k) for a byte b and k in {0, 8, 16, 24}.
ShiftLeft(b, k) == IF k = 24 /\ b >= 128 THEN (b - 256) * 16777216 ELSE b * 2 ^ k

\* (Uint8)(data >> k)
ShiftRightByte(data, k) == (data \div 2 ^ k) % 256

\* Uint32 addition modulo 2^32 of a value and a byte shifted into free bits.
QByteAdd(r0, r, k) == [m |-> r.m, data |-> r0.data + ShiftLeft(r.data, k)]

\* mem_rd_data_p[slot] ? *(mem_rd_data_p[slot] + addr) : mem_rd_func_p[slot](slot, addr)
QByteReadAt(m, addr) ==
    IF Stopped(m) THEN [m |-> m, data |-> 0]
    ELSE IF m.tab[addr \div 256].mem_rd_data_p # NULLP
    THEN Load(m, m.tab[addr \div 256].mem_rd_data_p, addr)
    ELSE CallReadFunc(m, m.tab[addr \div 256].mem_rd_func_p, addr \div 256, addr)

\* One line of cpu_read_qbyte: slot = (++addr) >> 8; data += (...) << k.
QByteReadStep(r0, addr, k) == QByteAdd(r0, QByteReadAt(r0.m, addr), k)

cpu_read_qbyte(m, addr) ==
    QByteReadStep(
        QByteReadStep(
            QByteReadStep(QByteReadStep([m |-> m, data |-> 0], addr, 0),
                          Uint16(addr + 1), 8),
            Uint16(addr + 2), 16),
        Uint16(addr + 3), 24)

\* One line of cpu_write_qbyte.
QByteWriteAt(m, addr, data) ==
    IF Stopped(m) THEN m
    ELSE IF m.tab[addr \div 256].mem_wr_data_p # NULLP
    THEN Store(m, m.tab[addr \div 256].mem_wr_data_p, addr, data)
    ELSE CallWriteFunc(m, m.tab[addr \div 256].mem_wr_func_p, addr \div 256, addr, data)

\* A cpu_write_qbyte that selects the slot once, for the first byte.
cpu_write_qbyte_OneSlot(m, addr, data) ==
    IF Stopped(m) THEN m
    ELSE IF m.tab[addr \div 256].mem_wr_data_p # NULLP
    THEN Store(Store(Store(Store(m, m.tab[addr \div 256].mem_wr_data_p, addr,
                                 ShiftRightByte(data, 0)),
                           m.tab[addr \div 256].mem_wr_data_p, addr + 1,
                           ShiftRightByte(data, 8)),
                     m.tab[addr \div 256].mem_wr_data_p, addr + 2, ShiftRightByte(data, 16)),
               m.tab[addr \div 256].mem_wr_data_p, addr + 3, ShiftRightByte(data, 24))
    ELSE QByteWriteAt(
             QByteWriteAt(
                 QByteWriteAt(QByteWriteAt(m, addr, ShiftRightByte(data, 0)),
                              Uint16(addr + 1), ShiftRightByte(data, 8)),
                 Uint16(addr + 2), ShiftRightByte(data, 16)),
             Uint16(addr + 3), ShiftRightByte(data, 24))

cpu_write_qbyte(m, addr, data) ==
    QByteWriteAt(
        QByteWriteAt(
            QByteWriteAt(QByteWriteAt(m, addr, ShiftRightByte(data, 0)),
                         Uint16(addr + 1), ShiftRightByte(data, 8)),
            Uint16(addr + 2), ShiftRightByte(data, 16)),
        Uint16(addr + 3), ShiftRightByte(data, 24))

-----------------------------------------------------------------------------
(* Memory channels.                                                        *)

\* The decoder's last argument is memory_channel_last_dectab_p + channel.
KeepChannelP(r, channel) == [r.m EXCEPT !.memory_channel_last_dectab_p[channel] = r.p]

\* A channel that decodes but does not remember the page it decoded.
ChannelDecode_Forgets(m, channel, linaddr_aligned) ==
    IF linaddr_aligned # m.memory_channel_last_usage[channel]
    THEN KeepChannelP(
             linear_memory_access_decoder(
                 m, linaddr_aligned, channel + 256, m.memory_channel_last_dectab_p[channel]),
             channel)
    ELSE m

\* if (linaddr_aligned != memory_channel_last_usage[channel]) { ... }
ChannelDecode(m, channel, linaddr_aligned) ==
    IF linaddr_aligned # m.memory_channel_last_usage[channel]
    THEN KeepChannelP(
             linear_memory_access_decoder(
                 [m EXCEPT !.memory_channel_last_usage[channel] = linaddr_aligned],
                 linaddr_aligned, channel + 256, m.memory_channel_last_dectab_p[channel]),
             channel)
    ELSE m

\* The access through the channel's slot, once it is decoded.
ChannelRead(m, e, channel, linaddr) ==
    IF Stopped(m) THEN [m |-> m, data |-> 0]
    ELSE IF e.mem_rd_data_p # NULLP
    THEN Load(m, e.mem_rd_data_p, BitAnd(linaddr, \hFF))
    ELSE CallReadFunc(m, e.mem_rd_func_p, channel + 256, linaddr)

ChannelWrite(m, e, channel, linaddr, data) ==
    IF Stopped(m) THEN m
    ELSE IF e.mem_wr_data_p # NULLP
    THEN Store(m, e.mem_wr_data_p, BitAnd(linaddr, \hFF), data)
    ELSE CallWriteFunc(m, e.mem_wr_func_p, channel + 256, linaddr, data)

ChannelReadAt(m, channel, linaddr) == ChannelRead(m, m.tab[channel + 256], channel, linaddr)

ChannelWriteAt(m, channel, linaddr, data) ==
    ChannelWrite(m, m.tab[channel + 256], channel, linaddr, data)

memory_channel_read(m, channel, linaddr) ==
    ChannelReadAt(ChannelDecode(m, channel, BitAnd(linaddr, \hFFFFF00)), channel, linaddr)

memory_channel_write(m, channel, linaddr, data) ==
    ChannelWriteAt(ChannelDecode(m, channel, BitAnd(linaddr, \hFFFFF00)), channel, linaddr,
                   data)

-----------------------------------------------------------------------------
(* The MAP and EOM opcodes.                                                *)

\* Faulty variant: a moved offset alone invalidates nothing.
MapBlockChanged_MaskOnly(is_map_offs_changed, map_mask, changed_bits_map_mask, bit) ==
    BitAnd(changed_bits_map_mask, bit) # 0

\* One line of the partial invalidation:
\* (is_map_offs_changed && (map_mask & bit)) || (changed_bits_map_mask & bit)
MapBlockChanged(is_map_offs_changed, map_mask, changed_bits_map_mask, bit) ==
    \/ is_map_offs_changed /\ BitAnd(map_mask, bit) # 0
    \/ BitAnd(changed_bits_map_mask, bit) # 0

\* Block i of the low half covers slots 32*i .. 32*i+31.
RECURSIVE MapInvalidateBlocks(_, _, _, _, _)
MapInvalidateBlocks(m, blk, last, is_map_offs_changed, changed_bits_map_mask) ==
    IF blk > last THEN m
    ELSE MapInvalidateBlocks(
             IF MapBlockChanged(is_map_offs_changed, m.map_mask, changed_bits_map_mask,
                                2 ^ blk)
             THEN [memory_invalidate_mapper(m, blk * 32, blk * 32 + 31)
                      EXCEPT !.legacy_io_is_mapped = @ /\ blk # 6]
             ELSE m,
             blk + 1, last, is_map_offs_changed, changed_bits_map_mask)

\* Faulty variant: the megabyte selectors test the low nibble of X and Z only.
MapRegisters_Nibble(m, a, x, y, z) ==
    [m EXCEPT !.cpu_inhibit_interrupts = TRUE,
              !.map_offset_low    = BitOr(a * 256, BitAnd(x, 15) * 65536),
              !.map_offset_high   = BitOr(y * 256, BitAnd(z, 15) * 65536),
              !.map_mask          = BitOr(BitAnd(z, \hF0), x \div 16),
              !.map_megabyte_low  = IF BitAnd(x, \h0F) = \h0F THEN a * 1048576 ELSE @,
              !.map_megabyte_high = IF BitAnd(z, \h0F) = \h0F THEN y * 1048576 ELSE @]

\* The registers of the MAP opcode to the mapping state (no invalidation yet).
MapRegisters(m, a, x, y, z) ==
    [m EXCEPT !.cpu_inhibit_interrupts = TRUE,
              !.map_offset_low    = BitOr(a * 256, BitAnd(x, 15) * 65536),
              !.map_offset_high   = BitOr(y * 256, BitAnd(z, 15) * 65536),
              !.map_mask          = BitOr(BitAnd(z, \hF0), x \div 16),
              !.map_megabyte_low  = IF x = \h0F THEN a * 1048576 ELSE @,
              !.map_megabyte_high = IF z = \h0F THEN y * 1048576 ELSE @]

\* #ifdef MAP_OPCODE_PARTIAL_INVALIDATION_ON_MAPPINGS
MapInvalidatePartial(old, m) ==
    MapInvalidateBlocks(
        MapInvalidateBlocks(m, 0, 3,
                            (m.map_megabyte_low + m.map_offset_low)
                                # (old.map_megabyte_low + old.map_offset_low),
                            BitXor(old.map_mask, m.map_mask)),
        4, 7,
        (m.map_megabyte_high + m.map_offset_high)
            # (old.map_megabyte_high + old.map_offset_high),
        BitXor(old.map_mask, m.map_mask))

\* #else
MapInvalidateFull(old, m) ==
    [memory_invalidate_mapper(m, 0, \hFF) EXCEPT !.legacy_io_is_mapped = FALSE]

cpu65_do_aug_callback(m, a, x, y, z, partial) ==
    IF partial THEN MapInvalidatePartial(m, MapRegisters(m, a, x, y, z))
    ELSE MapInvalidateFull(m, MapRegisters(m, a, x, y, z))

\* Faulty variant: EOM toggles the flag.
cpu65_do_nop_callback_Toggle(m) == [m EXCEPT !.cpu_inhibit_interrupts = ~@]

cpu65_do_nop_callback(m) ==
    IF m.cpu_inhibit_interrupts
    THEN [m EXCEPT !.cpu_inhibit_interrupts = FALSE]
    ELSE m

-----------------------------------------------------------------------------
(* VIC-III ROM banking.                                                    *)

VIC3_ROM_MASK_ALL ==
    BitOr(BitOr(VIC3_ROM_MASK_8000, VIC3_ROM_MASK_A000),
          BitOr(VIC3_ROM_MASK_C000, VIC3_ROM_MASK_E000))

Vic3Invalidate(m, cfg_changed, mask, first, last) ==
    IF BitAnd(cfg_changed, mask) # 0 THEN memory_invalidate_mapper(m, first, last) ELSE m

\* if (cfg != old_cfg) { ... old_cfg = cfg; }
Vic3Changed(m, cfg, cfg_changed) ==
    IF cfg_changed # 0
    THEN Vic3Invalidate(
             Vic3Invalidate(
                 Vic3Invalidate(
                     Vic3Invalidate([m EXCEPT !.old_cfg = cfg],
                                    cfg_changed, VIC3_ROM_MASK_8000, \h80, \h9F),
                     cfg_changed, VIC3_ROM_MASK_A000, \hA0, \hBF),
                 cfg_changed, VIC3_ROM_MASK_C000, \hC0, \hCF),
             cfg_changed, VIC3_ROM_MASK_E000, \hE0, \hFF)
    ELSE m

\* A mask applied in hypervisor mode too.
Vic3Cfg_AnyMode(m, cfg) == BitAnd(cfg, VIC3_ROM_MASK_ALL)

\* if (in_hypervisor) cfg = 0; else cfg &= VIC3_ROM_MASK_...
Vic3Cfg(m, cfg) == IF m.in_hypervisor THEN 0 ELSE BitAnd(cfg, VIC3_ROM_MASK_ALL)

memory_set_vic3_rom_mapping(m, cfg) ==
    Vic3Changed(m, Vic3Cfg(m, cfg), BitXor(m.old_cfg, Vic3Cfg(m, cfg)))

-----------------------------------------------------------------------------
(* memory_init: the machine after construction (a release build: the table *)
(* check is compiled out).                                                 *)

StaticMachine ==
    [skip_unhandled_mem |-> 0,
     rom_protect |-> FALSE,
     legacy_io_is_mapped |-> FALSE,
     map_offset_low |-> 0, map_offset_high |-> 0,
     map_megabyte_low |-> 0, map_megabyte_high |-> 0,
     map_mask |-> 0,
     cpu_io_port |-> [i \in 0 .. 1 |-> 0],
     c64_memlayout |-> C64_MEMLAYOUT_RESET,
     cpu_rmw_old_data |-> CPU_RMW_NO_DATA,
     force_fast |-> 0,
     cpu_inhibit_interrupts |-> FALSE,
     vic_registers_30 |-> 0,
     vic_iomode |-> 0,
     in_hypervisor |-> FALSE,
     old_cfg |-> 0,
     memory_channel_last_usage |-> [a \in Channels |-> 0],
     memory_channel_last_dectab_p |-> [a \in Channels |-> 0],
     dectab_last_p |-> [i \in 0 .. 15 |-> 1],
     tab |-> [i \in AllSlots |-> ZeroEntry],
     mem |-> EmptyMem,
     log |-> << >>,
     question_answer |-> 0,
     io_in |-> 0,
     stray |-> -1,
     rmw_seen |-> << >>,
     wild |-> FALSE,
     ub |-> FALSE,
     exited |-> FALSE]

\* The memset()s and the colour RAM loop leave every array at its InitByte.
memory_init(m) == [memory_invalidate_mapper_all(m) EXCEPT !.mem = EmptyMem]

\* check_decoder_table: the loop over every entry but the last, then the last.
RECURSIVE CheckDecoderFrom(_)
CheckDecoderFrom(i) ==
    IF i = Len(decoder_table)
    THEN IF decoder_table[i].end # \hFFFFFFF
         THEN "list does not end with 0xFFFFFFF" ELSE "NULL"
    ELSE IF decoder_table[i].begin >= decoder_table[i].end
    THEN "a region has zero or negative size?!"
    ELSE IF BitAnd(decoder_table[i].begin, \hFF) # 0
    THEN "a region starts with non-0x00 byte!"
    ELSE IF BitAnd(decoder_table[i].end, \hFF) # \hFF
    THEN "a region ends with non-0xFF byte!"
    ELSE IF i # 1 /\ decoder_table[i].begin # decoder_table[i - 1].end + 1
    THEN "hole or overlap between entries maybe out of address order"
    ELSE CheckDecoderFrom(i + 1)

check_decoder_table ==
    IF decoder_table[1].begin # 0 THEN "list does not start with 0x0"
    ELSE CheckDecoderFrom(1)

\* memory_init of a build: #ifndef XEMU_RELEASE_BUILD it checks the table first.
memory_init_build(m, release_build) ==
    IF ~release_build /\ check_decoder_table # "NULL"
    THEN [Logged(m, "FATAL", check_decoder_table, 0, 0) EXCEPT !.exited = TRUE]
    ELSE memory_init(m)

-----------------------------------------------------------------------------
(* The emulated system around the core: the CPU (opcodes and accesses),    *)
(* the bus masters (channels), the VIC (register 0x30) and the hypervisor. *)
(* An operation is a record; Apply runs it on a machine.                   *)

Op(op, a, x, y, z, addr, data, ch) ==
    [op |-> op, a |-> a, x |-> x, y |-> y, z |-> z, addr |-> addr, data |-> data,
     ch |-> ch, val |-> 0, fval |-> 0]

\* A write of VIC-III register 0x30: the register, then the ROM mapping.
vic_write_reg_30(m, data) ==
    memory_set_vic3_rom_mapping([m EXCEPT !.vic_registers_30 = data], data)

\* Entering and leaving hypervisor mode flush the high half.
hypervisor_enter(m) == memory_invalidate_mapper([m EXCEPT !.in_hypervisor = TRUE], \h80, \hFF)
hypervisor_leave(m) == memory_invalidate_mapper([m EXCEPT !.in_hypervisor = FALSE], \h80, \hFF)

\* Every operation starts with an empty log.
Begin(m) == [m EXCEPT !.log = << >>, !.rmw_seen = << >>]

\* "full" is a machine only where the two builds are run side by side.
NoMachine == [unused |-> TRUE]

\* One operation o of the system: r is its outcome on mach, f its outcome on full.
Step(o, r, f) ==
    /\ ~Stopped(mach)
    /\ mach' = r.m
    /\ full' = IF full = NoMachine THEN full ELSE f.m
    /\ ev'   = [o EXCEPT !.val = r.data,
                         !.fval = IF full = NoMachine THEN r.data ELSE f.data]

\* An operation that returns no data.
Done(m) == [m |-> m, data |-> 0]

-----------------------------------------------------------------------------
(* Bounds of the model and the inputs of its specifications.               *)

\* Bytes a write may store: DataByte(1) .. DataByte(MaxData).
MaxData == 1
DataByte(i) == (i * \h55) % 256
WriteData == {DataByte(i) : i \in 1 .. MaxData}

\* The user's pick in the QUESTION_WINDOW an operation may open.
Ask(m, q) == [Begin(m) EXCEPT !.question_answer = q]
Told(r) == [r EXCEPT !.m.question_answer = 0]

InitWith(c) ==
    /\ \E rp \in c.rom_protect, rb \in c.release_build, st \in c.strays :
          mach = memory_init_build([StaticMachine EXCEPT
                                       !.rom_protect = rp,
                                       !.stray = st,
                                       !.tab = [i \in c.slots |-> ZeroEntry]], rb)
    /\ full = IF c.lockstep THEN mach ELSE NoMachine
    /\ ev = Op("memory_init", 0, 0, 0, 0, 0, 0, 0)

DoMap(c) ==
    \E r \in c.maps :
        Step(Op("map", r[1], r[2], r[3], r[4], 0, 0, 0),
             Done(cpu65_do_aug_callback(Begin(mach), r[1], r[2], r[3], r[4], TRUE)),
             Done(cpu65_do_aug_callback(Begin(full), r[1], r[2], r[3], r[4], FALSE)))

DoEom(c) ==
    Step(Op("eom", 0, 0, 0, 0, 0, 0, 0),
         Done(cpu65_do_nop_callback(Begin(mach))),
         Done(cpu65_do_nop_callback(Begin(full))))

DoCpuRead(c) ==
    \E a \in c.reads, q \in c.answers :
        Step(Op("cpu_read", 0, 0, 0, 0, a, 0, 0),
             Told(cpu_read(Ask(mach, q), a)), Told(cpu_read(Ask(full, q), a)))

DoCpuWrite(c) ==
    \E a \in c.writes, d \in WriteData, q \in c.answers :
        Step(Op("cpu_write", 0, 0, 0, 0, a, d, 0),
             Told(Done(cpu_write(Ask(mach, q), a, d))),
             Told(Done(cpu_write(Ask(full, q), a, d))))

\* A bus master's read and write through a channel.
DoChanRead(c) ==
    \E ch \in c.chans, a \in c.lins, q \in c.answers :
        Step(Op("channel_read", 0, 0, 0, 0, a, 0, ch),
             Told(memory_channel_read(Ask(mach, q), ch, a)),
             Told(memory_channel_read(Ask(full, q), ch, a)))

DoChanWrite(c) ==
    \E ch \in c.chans, a \in c.lins, d \in WriteData, q \in c.answers :
        Step(Op("channel_write", 0, 0, 0, 0, a, d, ch),
             Told(Done(memory_channel_write(Ask(mach, q), ch, a, d))),
             Told(Done(memory_channel_write(Ask(full, q), ch, a, d))))

\* A read-modify-write opcode: old_data is what it read, new_data what it writes.
DoRmw(c) ==
    \E a \in c.writes, w \in c.rmws :
        Step(Op("cpu_write_rmw", 0, 0, 0, 0, a, w[2], w[1]),
             Done(cpu_write_rmw(Begin(mach), a, w[1], w[2])),
             Done(cpu_write_rmw(Begin(full), a, w[1], w[2])))

\* A 32-bit read and write of the CPU.
DoQRead(c) ==
    \E a \in c.qaddrs :
        Step(Op("cpu_read_qbyte", 0, 0, 0, 0, a, 0, 0),
             cpu_read_qbyte(Begin(mach), a), cpu_read_qbyte(Begin(full), a))

DoQWrite(c) ==
    \E a \in c.qaddrs, d \in c.quads :
        Step(Op("cpu_write_qbyte", 0, 0, 0, 0, a, d, 0),
             Done(cpu_write_qbyte(Begin(mach), a, d)),
             Done(cpu_write_qbyte(Begin(full), a, d)))

\* A CPU write to the I/O port at 0 or 1.
DoPort(c) ==
    \E w \in c.ports :
        Step(Op("cpu_write", 0, 0, 0, 0, w[1], w[2], 0),
             Done(cpu_write(Begin(mach), w[1], w[2])),
             Done(cpu_write(Begin(full), w[1], w[2])))

\* A bus master's write to the I/O port, through channel 2.
DoChanPort(c) ==
    \E w \in c.ports :
        Step(Op("channel_write", 0, 0, 0, 0, w[1], w[2], 2),
             Done(memory_channel_write(Begin(mach), 2, w[1], w[2])),
             Done(memory_channel_write(Begin(full), 2, w[1], w[2])))

DoVic3(c) ==
    \E v \in c.vic3 :
        Step(Op("vic3", 0, 0, 0, 0, 0, v, 0),
             Done(vic_write_reg_30(Begin(mach), v)), Done(vic_write_reg_30(Begin(full), v)))

\* A direct call of memory_invalidate_mapper(start_slot, last_slot).
DoInvalidate(c) ==
    \E r \in c.ranges :
        Step(Op("memory_invalidate_mapper", r[1], r[2], 0, 0, 0, 0, 0),
             Done(memory_invalidate_mapper(Begin(mach), r[1], r[2])),
             Done(memory_invalidate_mapper(Begin(full), r[1], r[2])))

\* A direct call of memory_invalidate_channels().
DoInvalidateChannels(c) ==
    Step(Op("memory_invalidate_channels", 0, 0, 0, 0, 0, 0, 0),
         Done(memory_invalidate_channels(Begin(mach))),
         Done(memory_invalidate_channels(Begin(full))))

DoHypEnter(c) ==
    /\ ~mach.in_hypervisor
    /\ Step(Op("hyp_enter", 0, 0, 0, 0, 0, 0, 0),
            Done(hypervisor_enter(Begin(mach))), Done(hypervisor_enter(Begin(full))))

DoHypLeave(c) ==
    /\ mach.in_hypervisor
    /\ Step(Op("hyp_leave", 0, 0, 0, 0, 0, 0, 0),
            Done(hypervisor_leave(Begin(mach))), Done(hypervisor_leave(Begin(full))))

\* The inputs of a specification: the slots it keeps, the initial rom_protect,
\* and the operands of its operations.
\* The others have defaults: a release build, out-of-bounds accesses fault, the user
\* answers EXIT, no channel accesses, no read-modify-write or quad-byte operands.
Cfg(slots, rom_protect, lockstep, maps, reads, writes, ports, vic3) ==
    [slots |-> slots, rom_protect |-> rom_protect, lockstep |-> lockstep, maps |-> maps,
     reads |-> reads, writes |-> writes, ports |-> ports, vic3 |-> vic3,
     release_build |-> {TRUE}, strays |-> {-1}, answers |-> {0},
     chans |-> {}, lins |-> {}, rmws |-> {}, qaddrs |-> {}, quads |-> {}, ranges |-> {}]

\* The CPU alone: opcodes and accesses.
NextCpu(c) ==
    \/ DoMap(c)
    \/ DoEom(c)
    \/ DoCpuRead(c)
    \/ DoCpuWrite(c)
    \/ DoPort(c)

\* The CPU, the VIC, the hypervisor and a bus master.
NextSys(c) ==
    \/ DoMap(c)
    \/ DoEom(c)
    \/ DoCpuRead(c)
    \/ DoCpuWrite(c)
    \/ DoPort(c)
    \/ DoChanPort(c)
    \/ DoVic3(c)
    \/ DoHypEnter(c)
    \/ DoHypLeave(c)

\* The CPU reading under the VIC and the hypervisor.
NextVic3(c) ==
    \/ DoMap(c)
    \/ DoCpuRead(c)
    \/ DoPort(c)
    \/ DoVic3(c)
    \/ DoHypEnter(c)
    \/ DoHypLeave(c)

\* MAP opcodes between CPU accesses.
NextLazy(c) ==
    \/ DoMap(c)
    \/ DoCpuRead(c)
    \/ DoCpuWrite(c)

\* The opcodes alone.
NextRegs(c) ==
    \/ DoMap(c)
    \/ DoEom(c)

\* Port writes that reach every layout index, 0x2F/0x37 among them.
AllPorts == {<<0, 7>>, <<0, \h2F>>, <<1, \h37>>} \cup {<<1, v>> : v \in 0 .. 7}

(* Spec: the whole system around the 0xE000 window.                        *)
SysCfg ==
    Cfg({\h00, \hE0, 258}, {FALSE}, FALSE,
        {<<0, 0, 0, 0>>, <<0, 0, 0, \h81>>},
        {\hE002}, {\hE002},
        {<<0, 7>>, <<1, 6>>},
        {0, \h80})

Init == InitWith(SysCfg)
Next == NextSys(SysCfg)
Spec == Init /\ [][Next]_vars

(* SpecVic3: reads of the four VIC-III ROM windows.                        *)
Vic3Cfg4 ==
    Cfg({\h00, \h80, \hA0, \hC0, \hE0}, {FALSE}, FALSE,
        {<<0, 0, 0, 0>>, <<0, 0, 0, \hF1>>},
        {\h8002, \hA002, \hC002, \hE002}, {},
        {<<0, 7>>},
        {0, \hB8})

InitVic3 == InitWith(Vic3Cfg4)
NextV == NextVic3(Vic3Cfg4)
SpecVic3 == InitVic3 /\ [][NextV]_vars

(* SpecD000: the CPU port and the 0xD000 window.                           *)
D000Cfg ==
    Cfg({\h00, \hD0}, {FALSE}, FALSE,
        {<<0, 0, 0, 0>>, <<0, 0, 0, \h41>>},
        {\hD002}, {\hD002},
        AllPorts,
        {})

InitD000 == InitWith(D000Cfg)
NextD000 == NextCpu(D000Cfg)
SpecD000 == InitD000 /\ [][NextD000]_vars

(* SpecA000: the CPU port and the 0xA000 window.                           *)
A000Cfg ==
    Cfg({\h00, \hA0}, {FALSE}, FALSE,
        {<<0, 0, 0, 0>>, <<0, 0, 0, \h21>>},
        {\hA002}, {\hA002},
        AllPorts,
        {})

InitA000 == InitWith(A000Cfg)
NextA000 == NextCpu(A000Cfg)
SpecA000 == InitA000 /\ [][NextA000]_vars

(* SpecRom: writes under the C64 ROMs, with and without rom_protect.       *)
RomCfg ==
    Cfg({\h00, \hA0, \hD0, \hE0}, {FALSE, TRUE}, FALSE,
        {<<0, 0, 0, 0>>, <<0, 0, 0, \h81>>},
        {\hA002, \hD002, \hE002}, {\hA002, \hD002, \hE002},
        {<<0, 7>>, <<1, 3>>},
        {})

InitRom == InitWith(RomCfg)
NextRom == NextCpu(RomCfg)
SpecRom == InitRom /\ [][NextRom]_vars

(* SpecLazy: the build with the partial invalidation beside the build      *)
(* without it, on the same operations.                                     *)
LazyCfg ==
    Cfg({\h02, \hE0}, {FALSE}, TRUE,
        {<<0, 0, 0, 0>>, <<\h10, \h10, 0, 0>>, <<\h20, \h10, 0, 0>>,
         <<\h10, \h10, \h10, \h80>>, <<\h10, \h10, \h20, \h80>>, <<\h10, \h10, \h80, \h0F>>},
        {\h0234, \hE002}, {\h0234},
        {},
        {})

InitLazy == InitWith(LazyCfg)
NextL == NextLazy(LazyCfg)
SpecLazy == InitLazy /\ [][NextL]_vars

(* SpecRegs: the MAP and EOM opcodes on many register values.              *)
RegsCfg ==
    Cfg({}, {FALSE}, FALSE,
        {<<a, x, y, z>> : a \in {0, \h12}, x \in {\h03, \h0F, \hFF},
                          y \in {0, \h34}, z \in {\h0F, \hF5, \h1F}},
        {}, {},
        {},
        {})

InitRegs == InitWith(RegsCfg)
NextR == NextRegs(RegsCfg)
SpecRegs == InitRegs /\ [][NextR]_vars

\* CPU and channel accesses under MAP opcodes and the VIC.
NextBus(c) ==
    \/ DoMap(c)
    \/ DoCpuRead(c)
    \/ DoCpuWrite(c)
    \/ DoChanRead(c)
    \/ DoChanWrite(c)
    \/ DoVic3(c)

(* SpecProt: writes into the C65 ROM with rom_protect, through the VIC-III  *)
(* windows at 0xC000 and 0xE000, a MAP window at 0xE000 on physical         *)
(* 0x30000, and a channel.                                                  *)
ProtCfg ==
    [Cfg({\hC0, \hE0, 258}, {FALSE, TRUE}, FALSE,
         {<<0, 0, 0, 0>>, <<0, 0, \h20, \h82>>},
         {\hE002}, {\hC002, \hE002},
         {},
         {0, \hA0})
        EXCEPT !.chans = {2}, !.lins = {\h20002}, !.strays = {-1, \hAA}]

InitProt == InitWith(ProtCfg)
NextProt == NextBus(ProtCfg)
SpecProt == InitProt /\ [][NextProt]_vars

(* SpecIgn: the ignored region 0x4000000-0x7FFFFFF, through a MAP window at *)
(* 0xE000 on its first page, and through a channel on its first two.        *)
IgnCfg ==
    [Cfg({\hE0, 258}, {FALSE}, FALSE,
         {<<0, 0, \h40, \h0F>>, <<0, 0, \h20, \h8F>>},
         {\hE002}, {\hE002},
         {},
         {0, \h80})
        EXCEPT !.chans = {2}, !.lins = {\h4000002, \h4000102}, !.strays = {-1, \hAA}]

InitIgn == InitWith(IgnCfg)
NextIgn == NextBus(IgnCfg)
SpecIgn == InitIgn /\ [][NextIgn]_vars

(* SpecBuild: memory_init of both builds, the release build and the one     *)
(* that checks the region table first, and the bus traffic after it.        *)
BuildCfg ==
    [Cfg({\hE0, 258}, {FALSE}, FALSE,
         {<<0, 0, 0, 0>>, <<0, 0, \h20, \h82>>},
         {\hE002}, {\hE002},
         {},
         {0, \h80})
        EXCEPT !.chans = {2}, !.lins = {\h102, \h40002}, !.release_build = {TRUE, FALSE}]

InitBuild == InitWith(BuildCfg)
NextBuild == NextBus(BuildCfg)
SpecBuild == InitBuild /\ [][NextBuild]_vars

(* SpecRam: writes read back in the RAM regions: 0x1002 and 0x40002 through *)
(* a MAP window at 0xE000 and a channel, slow RAM through the channel.      *)
RamCfg ==
    [Cfg({\hE0, 258}, {FALSE}, FALSE,
         {<<0, 0, \h30, \h8F>>, <<0, 0, \h20, \h83>>},
         {\hE002}, {\hE002},
         {},
         {0, \h80})
        EXCEPT !.chans = {2}, !.lins = {\h1002, \h40002, \h8000002}, !.answers = {0, 1}]

InitRam == InitWith(RamCfg)
NextRam == NextBus(RamCfg)
SpecRam == InitRam /\ [][NextRam]_vars

(* SpecColour: writes to the colour RAM head 0x1F800-0x1FFFF and to the RAM *)
(* below it, through MAP windows at 0xE000 and a channel.                   *)
ColourCfg ==
    [Cfg({\hE0, 258}, {FALSE}, FALSE,
         {<<0, 0, 0, 0>>, <<0, 0, \h18, \h81>>},
         {\hE002}, {\hE002},
         {},
         {0, \h80})
        EXCEPT !.chans = {2}, !.lins = {\h1F7FF, \h1FFFF}]

InitColour == InitWith(ColourCfg)
NextColour == NextBus(ColourCfg)
SpecColour == InitColour /\ [][NextColour]_vars

(* SpecUndec: the undecoded region 0x60000-0x3FFFFFF through a MAP window   *)
(* at 0xE000 and a channel, the user giving each answer of the question     *)
(* window.                                                                  *)
UndecCfg ==
    [Cfg({\hE0, 258}, {FALSE}, FALSE,
         {<<0, 0, 0, 0>>, <<0, 0, \h20, \h85>>},
         {\hE002}, {\hE002},
         {},
         {0, \h80})
        EXCEPT !.chans = {2}, !.lins = {\h60002, \h3FFFF02}, !.answers = 0 .. 3]

InitUndec == InitWith(UndecCfg)
NextUndec == NextBus(UndecCfg)
SpecUndec == InitUndec /\ [][NextUndec]_vars

\* The CPU with its read-modify-write opcodes.
NextRmw(c) ==
    \/ DoMap(c)
    \/ DoCpuRead(c)
    \/ DoCpuWrite(c)
    \/ DoRmw(c)
    \/ DoVic3(c)

(* SpecRmw: read-modify-write opcodes on the zero page (a callback), and at *)
(* 0xE000 on RAM, on the colour RAM head (a callback) and on the undecoded  *)
(* region (a callback that ends the program).                               *)
RmwCfg ==
    [Cfg({\h00, \hE0}, {FALSE}, FALSE,
         {<<0, 0, 0, 0>>, <<0, 0, \h18, \h81>>, <<0, 0, \h20, \h85>>},
         {\hE002}, {\h0002, \hE002},
         {},
         {0, \h80})
        EXCEPT !.rmws = {<<\h11, \h22>>, <<\h55, \h33>>}]

InitRmw == InitWith(RmwCfg)
NextRmwOps == NextRmw(RmwCfg)
SpecRmw == InitRmw /\ [][NextRmwOps]_vars

\* The CPU with its 32-bit accesses.
NextQuad(c) ==
    \/ DoMap(c)
    \/ DoQRead(c)
    \/ DoQWrite(c)
    \/ DoVic3(c)

\* 0x80FF0001 as a Uint32 (see Unsigned32).
QuadHigh == \h00FF0001 - \h7FFFFFFF - 1

(* SpecQuad: 32-bit accesses across a page boundary, at 0x00FE (the zero    *)
(* page and the page after it; under MAP, plain RAM and the colour RAM head) *)
(* and across the end of the address space at 0xFFFE.                       *)
QuadCfg ==
    [Cfg({\h00, \h01, \hFF}, {FALSE}, FALSE,
         {<<0, 0, 0, 0>>, <<\hF7, \h11, 0, 0>>},
         {}, {},
         {},
         {\h80})
        EXCEPT !.qaddrs = {\h00FE, \hFFFE}, !.quads = {\h11223344, QuadHigh}]

InitQuad == InitWith(QuadCfg)
NextQ == NextQuad(QuadCfg)
SpecQuad == InitQuad /\ [][NextQ]_vars

(* SpecCover: the whole system, the MAP opcode selecting megabyte 0xFF for  *)
(* the window at 0xE000.                                                    *)
CoverCfg ==
    [Cfg({\h00, \hE0, 258}, {FALSE}, FALSE,
         {<<0, 0, 0, 0>>, <<0, 0, \hFF, \h0F>>, <<0, 0, \h20, \h8F>>},
         {\hE002}, {\hE002},
         {<<1, 5>>},
         {0, \h80})
        EXCEPT !.strays = {-1, \hAA}]

InitCover == InitWith(CoverCfg)
NextCover == NextSys(CoverCfg)
SpecCover == InitCover /\ [][NextCover]_vars

(* SpecPort: the I/O port written at logical 0 and 1,                       *)
(* through the channel, and through a MAP window at 0xE000 on physical      *)
(* page 0, and with the low block mapped away from page 0.                  *)
PortCfg ==
    Cfg({\h00, \hE0, 258}, {FALSE}, FALSE,
        {<<\h80, \h11, 0, 0>>, <<0, 0, \h20, \h8F>>},
        {\hE001}, {\hE001},
        {<<0, 64>>, <<1, 5>>},
        {\h80})

\* The system around the I/O port: accesses, port writes by the CPU and the bus
\* master, MAP, the VIC and the hypervisor's invalidations.
NextPortOps(c) ==
    \/ DoMap(c)
    \/ DoCpuRead(c)
    \/ DoCpuWrite(c)
    \/ DoPort(c)
    \/ DoChanPort(c)
    \/ DoVic3(c)
    \/ DoHypEnter(c)
    \/ DoHypLeave(c)

InitPort == InitWith(PortCfg)
NextPort == NextPortOps(PortCfg)
SpecPort == InitPort /\ [][NextPort]_vars

(* SpecReset: the machine from memory_init on, the CPU reading and writing  *)
(* at 0xA000, 0xD000 and 0xE000 before and after port writes.               *)
ResetCfg ==
    Cfg({\h00, \hA0, \hD0, \hE0}, {FALSE}, FALSE,
        {<<0, 0, 0, 0>>},
        {\hA002, \hD002, \hE002}, {\hA002},
        {<<0, 7>>, <<1, 5>>},
        {})

InitReset == InitWith(ResetCfg)
NextReset == NextCpu(ResetCfg)
SpecReset == InitReset /\ [][NextReset]_vars

(* SpecIo: the whole system around the I/O window at 0xD000: port writes    *)
(* that select I/O, CHARGEN and RAM, a MAP window over it, the hypervisor.  *)
IoCfg ==
    Cfg({\h00, \hD0, 258}, {FALSE}, FALSE,
        {<<0, 0, 0, 0>>, <<0, 0, 0, \h41>>},
        {\hD002}, {\hD002},
        {<<0, 7>>, <<1, 5>>, <<1, 4>>},
        {\h20})

InitIo == InitWith(IoCfg)
NextIo == NextSys(IoCfg)
SpecIo == InitIo /\ [][NextIo]_vars

(* SpecLookup: two channels walking the region table between pages of main  *)
(* RAM, 0x40000-0x5FFFF, the ignored region, slow RAM and above slow RAM.   *)
LookupCfg ==
    [Cfg({\hE0, 257, 258}, {FALSE}, FALSE,
         {<<0, 0, 0, 0>>},
         {\hE002}, {\hE002},
         {},
         {0})
        EXCEPT !.chans = {1, 2},
               !.lins = {\h1002, \h40002, \h4000002, \h8000002, \h8800002},
               !.strays = {-1, \hAA}]

InitLookup == InitWith(LookupCfg)
NextLookup == NextBus(LookupCfg)
SpecLookup == InitLookup /\ [][NextLookup]_vars

\* CPU and channel accesses under MAP opcodes, the VIC, and direct invalidations.
NextInval(c) ==
    \/ DoMap(c)
    \/ DoCpuRead(c)
    \/ DoCpuWrite(c)
    \/ DoChanRead(c)
    \/ DoChanWrite(c)
    \/ DoVic3(c)
    \/ DoInvalidate(c)

(* SpecInval: memory_invalidate_mapper on one slot, on a range across the   *)
(* halves, on the high half and on all slots, between accesses.             *)
InvalCfg ==
    [Cfg({\h00, \h7F, \h80, \hE0, 258}, {FALSE}, FALSE,
         {<<0, 0, 0, 0>>, <<0, 0, \h18, \h81>>},
         {\h7F02, \hE002}, {\h0002, \h8002},
         {},
         {\h80})
        EXCEPT !.chans = {2}, !.lins = {\h1002},
               !.ranges = {<<0, 0>>, <<\h7F, \h80>>, <<\h80, \hFF>>, <<0, \hFF>>}]

InitInval == InitWith(InvalCfg)
NextInv   == NextInval(InvalCfg)
SpecInval == InitInval /\ [][NextInv]_vars

(* SpecScope: port writes through the layouts CHARGEN, CHARGEN+KERNAL and   *)
(* I/O+KERNAL+BASIC, over resolved slots of the windows from 0xA000 up,     *)
(* with the MAP bits of 0xA000-0xFFFF set and clear.                        *)
ScopeCfg ==
    Cfg({\h00, \hA0, \hC0, \hD0, \hE0}, {FALSE}, FALSE,
        {<<0, 0, 0, 0>>, <<0, 0, 0, \hE1>>},
        {\hA002, \hC002, \hD002, \hE002}, {\h0002},
        {<<0, 7>>, <<1, 1>>, <<1, 2>>},
        {})

InitScope == InitWith(ScopeCfg)
NextScope == NextCpu(ScopeCfg)
SpecScope == InitScope /\ [][NextScope]_vars

(* SpecRomMap: register 0x30 written with each window bit, with bit 0x40,    *)
(* in user and hypervisor mode, over resolved slots of every window.        *)
RomMapCfg ==
    Cfg({\h00, \h80, \hA0, \hC0, \hD0, \hE0}, {FALSE}, FALSE,
        {<<0, 0, 0, 0>>},
        {\h8002, \hA002, \hC002, \hD002, \hE002}, {},
        {<<0, 7>>},
        {0, \h08, \h40, \h50, \hA0})

InitRomMap == InitWith(RomMapCfg)
NextRomMap == NextVic3(RomMapCfg)
SpecRomMap == InitRomMap /\ [][NextRomMap]_vars

\* Bus masters on their channels beside the CPU, and the channels' invalidation.
NextChan(c) ==
    \/ DoCpuRead(c)
    \/ DoChanRead(c)
    \/ DoChanWrite(c)
    \/ DoInvalidateChannels(c)

(* SpecChan: two channels on two pages of main RAM (one page twice), on the *)
(* C65 ROM and on slow RAM, beside a resolved CPU slot.                     *)
ChanCfg ==
    [Cfg({\hE0, 257, 258}, {FALSE}, FALSE,
         {},
         {\hE002}, {},
         {},
         {})
        EXCEPT !.chans = {1, 2},
               !.lins = {\h1002, \h1080, \h20002, \h8000002}]

InitChan == InitWith(ChanCfg)
NextCh   == NextChan(ChanCfg)
SpecChan == InitChan /\ [][NextCh]_vars

\* The CPU and a bus master writing page 0 under MAP opcodes.
NextFast(c) ==
    \/ DoMap(c)
    \/ DoCpuRead(c)
    \/ DoCpuWrite(c)
    \/ DoPort(c)
    \/ DoChanPort(c)

(* SpecFast: 64, 65 and other values written to physical 0 and 1 by the     *)
(* CPU, by a bus master and through a MAP window at 0xE000 on physical page *)
(* 0, and bytes written to offset 2 of the page.                            *)
FastCfg ==
    Cfg({\h00, \hE0, 258}, {FALSE}, FALSE,
        {<<0, 0, 0, 0>>, <<0, 0, \h20, \h8F>>},
        {\h0002}, {\h0002, \hE002},
        {<<0, 64>>, <<0, 65>>, <<1, 64>>, <<0, 7>>, <<\hE000, 65>>},
        {})

InitFast == InitWith(FastCfg)
NextF    == NextFast(FastCfg)
SpecFast == InitFast /\ [][NextF]_vars

(* SpecPolicy: the debugger's channel and a MAP window at 0xE000 on the      *)
(* undecoded region, the user giving each answer of the question window.    *)
PolicyCfg ==
    [Cfg({\hE0, 260}, {FALSE}, FALSE,
         {<<0, 0, 0, 0>>, <<0, 0, \h20, \h85>>},
         {\hE002}, {\hE002},
         {},
         {0})
        EXCEPT !.chans = {DEBUGGER_MEMORY_CHANNEL}, !.lins = {\h100000, \h1002},
               !.answers = 0 .. 3]

InitPolicy == InitWith(PolicyCfg)
NextPolicy == NextBus(PolicyCfg)
SpecPolicy == InitPolicy /\ [][NextPolicy]_vars

-----------------------------------------------------------------------------
(* Observations the properties below are stated on.                        *)

\* What an operation did to the storage arrays and to the other subsystems: its log
\* without the decoder's own entries.
IsEffect(e) == e.e # "decode"
Effects(log) == SelectSeq(log, IsEffect)

\* The operation resolved a slot.
Decoded(log) == \E i \in DOMAIN log : log[i].e = "decode"

OneLoad(buf, idx, d)  == << LogEntry("load", buf, idx, d) >>
OneStore(buf, idx, d) == << LogEntry("store", buf, idx, d) >>

\* (cpu_io_port[1] | ~cpu_io_port[0]) & 7, by arithmetic on the three low bits.
LayoutIndex(m) ==
    LET bit(p, i) == (m.cpu_io_port[p] \div (2 ^ i)) % 2
        on(i)     == IF bit(1, i) = 1 \/ bit(0, i) = 0 THEN 1 ELSE 0
    IN  on(0) + 2 * on(1) + 4 * on(2)

\* The VIC-III ROM window over a slot is active: its register bit is set outside
\* hypervisor mode.  Slots without a window (0xD0-0xDF, the low half) have bit 0.
WindowBit(slot) ==
    CASE slot \in \h80 .. \h9F -> 8
      [] slot \in \hA0 .. \hBF -> 16
      [] slot \in \hC0 .. \hCF -> 32
      [] slot \in \hE0 .. \hFF -> 128
      [] OTHER                 -> 0

BitSet(v, bit) == bit # 0 /\ (v \div bit) % 2 = 1

WindowActive(m, slot) == BitSet(m.vic_registers_30, WindowBit(slot)) /\ ~m.in_hypervisor

\* The map_mask bit of a slot's 8 KiB block.
MaskBitSet(m, slot) == BitSet(m.map_mask, 2 ^ (slot \div 32))

\* The physical page a MAP window puts a slot on: offset plus logical address,
\* wrapped inside the selected 1 MiB slice.
MapPage(m, slot) ==
    IF slot < 128
    THEN m.map_megabyte_low  + ((m.map_offset_low  + slot * 256) % 1048576)
    ELSE m.map_megabyte_high + ((m.map_offset_high + slot * 256) % 1048576)

Resolved(m, slot) == m.tab[slot].by # "invalidated"

\* The CPU slots a machine keeps.
Tracked(m) == DOMAIN m.tab \cap CpuSlots

-----------------------------------------------------------------------------
(* C1.  Cache coherence.                                                   *)

\* The slot of addr decoded afresh from the current mapping state.
Fresh(m, addr) == cpu_memory_access_decoder(m, addr \div 256)

ReadSeenOf(r) == << r.data, Effects(r.m.log) >>
ReadSeen(m, addr) == ReadSeenOf(cpu_read(Begin(m), addr))
WriteSeen(m, addr, d) == Effects(cpu_write(Begin(m), addr, d).log)

\* C1: in every state the whole system reaches after memory_init, a cpu_read of any
\* address returns the byte, and a cpu_write of any address has the effect, that the
\* same access has after cpu_memory_access_decoder ran on the slot just before it:
\* no resolved slot is stale.
C1_NoStaleSlot ==
    ~Stopped(mach) =>
        \A a \in SysCfg.reads \cup SysCfg.writes :
            /\ ReadSeen(mach, a) = ReadSeen(Fresh(mach, a), a)
            /\ \A d \in WriteData : WriteSeen(mach, a, d) = WriteSeen(Fresh(mach, a), a, d)

-----------------------------------------------------------------------------
(* C2.  Lazy equivalence of the MAP opcode's partial invalidation.         *)

\* C2: after any sequence of MAP opcodes, CPU reads and CPU writes, the byte the last
\* read returned and the contents of the storage arrays are the same in the build
\* whose MAP invalidates only the changed windows as in the build whose MAP
\* invalidates all 256 CPU slots.
C2_LazyEquivalence ==
    /\ ev.val = ev.fval
    /\ mach.mem = full.mem
    /\ Effects(mach.log) = Effects(full.log)

\* A read through a slot the partial invalidation kept resolved across a MAP, which
\* the other build had to resolve again.
C2_Witness ==
    /\ ev.op = "cpu_read"
    /\ mach.map_mask # 0
    /\ Decoded(full.log)
    /\ ~Decoded(mach.log)

-----------------------------------------------------------------------------
(* C3.  The 0xD000 window by layout index.                                 *)

IsAccess(e) == e.op \in {"cpu_read", "cpu_write"}

\* The one effect of an access that went to a legacy I/O callback.
LegacyIoOnly(e, log) ==
    /\ Len(Effects(log)) = 1
    /\ Effects(log)[1].e = (IF e.op = "cpu_read" THEN "legacy_io_reader" ELSE "legacy_io_writer")
    /\ Effects(log)[1].a = e.addr

\* The one effect of an access that went to main_ram at offset idx.
RamOnly(e, log, idx) ==
    Effects(log) = IF e.op = "cpu_read" THEN OneLoad("main_ram", idx, e.val)
                   ELSE OneStore("main_ram", idx, e.data)

\* C3: with MAP mask bit 0x40 clear and the CPU port written, an access at
\* 0xD000-0xDFFF goes to RAM for layout index 0 and 4, a read comes from the CHARGEN
\* shadow at 0x2D000 for index 1, 2 and 3, and for index 5, 6 and 7 reads and writes
\* go to the legacy I/O callbacks and to nothing else.
C3_D000ByIndex ==
    (/\ IsAccess(ev)
     /\ ev.addr \in \hD000 .. \hDFFF
     /\ ~BitSet(mach.map_mask, \h40)
     /\ mach.c64_memlayout # C64_MEMLAYOUT_RESET) =>
        CASE LayoutIndex(mach) \in {0, 4}    -> RamOnly(ev, mach.log, ev.addr)
          [] LayoutIndex(mach) \in {1, 2, 3} ->
                 ev.op = "cpu_read" => RamOnly(ev, mach.log, \h20000 + ev.addr)
          [] OTHER                           -> LegacyIoOnly(ev, mach.log)

-----------------------------------------------------------------------------
(* C4.  The 0xA000 window by layout index.                                 *)

\* C4: with the VIC-III 0xA000 window inactive and MAP mask bit 0x20 clear, a read at
\* 0xA000-0xBFFF comes from the BASIC shadow main_ram[0x20000 + addr] when the layout
\* index is 3 or 7, and from main_ram[addr] for every other index.
C4_BasicByIndex ==
    (/\ ev.op = "cpu_read"
     /\ ev.addr \in \hA000 .. \hBFFF
     /\ ~WindowActive(mach, ev.addr \div 256)
     /\ ~BitSet(mach.map_mask, \h20)) =>
        RamOnly(ev, mach.log,
                (IF LayoutIndex(mach) \in {3, 7} THEN \h20000 ELSE 0) + ev.addr)

-----------------------------------------------------------------------------
(* C5.  The 0xE000 window by layout index.                                 *)

\* C5: with the VIC-III 0xE000 window inactive and MAP mask bit 0x80 clear, a read at
\* 0xE000-0xFFFF comes from the KERNAL shadow main_ram[0x20000 + addr] when the layout
\* index is 2, 3, 6 or 7, and from main_ram[addr] for index 0, 1, 4 and 5.
C5_KernalByIndex ==
    (/\ ev.op = "cpu_read"
     /\ ev.addr \in \hE000 .. \hFFFF
     /\ ~WindowActive(mach, ev.addr \div 256)
     /\ ~BitSet(mach.map_mask, \h80)
     /\ ~Stopped(mach)) =>
        RamOnly(ev, mach.log,
                (IF LayoutIndex(mach) \in {2, 3, 6, 7} THEN \h20000 ELSE 0) + ev.addr)

-----------------------------------------------------------------------------
(* C6.  Priority of the VIC-III ROM windows in the high half.              *)

\* The C65 ROM shadow behind a logical address of a window: 0x8000 -> 0x38000,
\* 0xA000 -> 0x3A000, 0xC000 -> 0x2C000, 0xE000 -> 0x3E000.
ShadowAddr(addr) ==
    CASE addr \in \h8000 .. \h9FFF -> \h38000 + (addr - \h8000)
      [] addr \in \hA000 .. \hBFFF -> \h3A000 + (addr - \hA000)
      [] addr \in \hC000 .. \hCFFF -> \h2C000 + (addr - \hC000)
      [] addr \in \hE000 .. \hFFFF -> \h3E000 + (addr - \hE000)
      [] OTHER                     -> -1

\* A resolved slot reads the ROM shadow of its window.
ReadsShadow(m, slot) ==
    /\ m.tab[slot].mem_rd_data_p.buf = "main_ram"
    /\ m.tab[slot].mem_rd_data_p.off + slot * 256 = ShadowAddr(slot * 256)

\* A resolved slot is on its MAP window.
OnMapWindow(m, slot) == m.tab[slot].by = "linear" /\ m.tab[slot].lin = MapPage(m, slot)

\* A resolved slot is on the C64 layout: a C64 ROM or RAM.
OnC64Layout(m, slot) == m.tab[slot].by \in {"c64_map_rom", "c6x_map_ram"}

\* C6: of the windows 0x8000, 0xA000, 0xC000 and 0xE000, a resolved slot whose
\* register 0x30 bit is set outside hypervisor mode reads the C65 ROM shadow whatever
\* map_mask and the C64 layout are, and a read there returns the shadow's byte; in
\* hypervisor mode the bit is ignored and the slot is on its MAP window if its mask
\* bit is set and on the C64 layout or RAM otherwise.  The states after hypervisor
\* mode is left are among these: the shadow is visible again.
C6_Vic3Priority ==
    /\ \A s \in Tracked(mach) :
           (WindowBit(s) # 0 /\ Resolved(mach, s)) =>
               /\ WindowActive(mach, s) => ReadsShadow(mach, s)
               /\ (mach.in_hypervisor /\ MaskBitSet(mach, s))  => OnMapWindow(mach, s)
               /\ (mach.in_hypervisor /\ ~MaskBitSet(mach, s)) => OnC64Layout(mach, s)
    /\ (ev.op = "cpu_read" /\ WindowActive(mach, ev.addr \div 256)) =>
           Effects(mach.log) = OneLoad("main_ram", ShadowAddr(ev.addr), ev.val)

\* A read of the 0xC000 shadow under a mapped block, the register bit having been set
\* in hypervisor mode (old_cfg never saw it) and hypervisor mode left since.
C6_Witness ==
    /\ ev.op = "cpu_read"
    /\ ev.addr = \hC002
    /\ ~mach.in_hypervisor
    /\ BitSet(mach.vic_registers_30, 32)
    /\ mach.old_cfg = 0
    /\ MaskBitSet(mach, \hC0)
    /\ Effects(mach.log) = OneLoad("main_ram", \h2C002, ev.val)

-----------------------------------------------------------------------------
(* C7.  The address of a MAP window.                                       *)

\* C7: a resolved CPU slot whose block has its map_mask bit set, and in the high half
\* no active VIC-III ROM window, is on physical page
\* map_megabyte + ((map_offset + (slot << 8)) & 0xFFF00) of its half; a resolved slot
\* of the low half whose mask bit is clear is on physical page slot << 8.
C7_MapWindowPage ==
    \A s \in Tracked(mach) :
        Resolved(mach, s) =>
            /\ (MaskBitSet(mach, s) /\ ~WindowActive(mach, s)) => OnMapWindow(mach, s)
            /\ (s < 128 /\ ~MaskBitSet(mach, s)) =>
                   mach.tab[s].mem_rd_data_p = Ptr("main_ram", 0)

-----------------------------------------------------------------------------
(* C8.  The MAP opcode's state update.                                     *)

\* C8: a MAP with registers A, X, Y, Z leaves map_offset_low = (A << 8) | ((X & 15) << 16),
\* map_offset_high = (Y << 8) | ((Z & 15) << 16) and map_mask = (Z & 0xF0) | (X >> 4);
\* map_megabyte_low becomes A << 20 when X = 0x0F and keeps its value otherwise,
\* map_megabyte_high becomes Y << 20 when Z = 0x0F and keeps its value otherwise.
C8_MapStep ==
    ev'.op = "map" =>
        /\ mach'.map_offset_low    = ev'.a * 256 + (ev'.x % 16) * 65536
        /\ mach'.map_offset_high   = ev'.y * 256 + (ev'.z % 16) * 65536
        /\ mach'.map_mask          = (ev'.z \div 16) * 16 + (ev'.x \div 16)
        /\ mach'.map_megabyte_low  = IF ev'.x = 15 THEN ev'.a * 1048576
                                     ELSE mach.map_megabyte_low
        /\ mach'.map_megabyte_high = IF ev'.z = 15 THEN ev'.y * 1048576
                                     ELSE mach.map_megabyte_high

C8_MapUpdate == [][C8_MapStep]_vars

\* A MAP whose X is not 0x0F, after one that selected megabyte 0x12 for the low half.
C8_Witness ==
    /\ ev.op = "map"
    /\ ev.x = \hFF
    /\ ev.a = 0
    /\ mach.map_megabyte_low = \h12 * 1048576
    /\ mach.map_offset_low = \hF0000

-----------------------------------------------------------------------------
(* C9.  MAP sets the interrupt inhibit, EOM clears it.                     *)

\* C9: every MAP sets cpu_inhibit_interrupts; no other operation but EOM changes the
\* flag; EOM leaves it clear, whether it was set or not, and changes nothing else of
\* the machine: no mapping state and no slot entry.
C9_InhibitStep ==
    /\ ev'.op = "map" => mach'.cpu_inhibit_interrupts
    /\ ev'.op = "eom" => mach' = [Begin(mach) EXCEPT !.cpu_inhibit_interrupts = FALSE]
    /\ ev'.op \notin {"map", "eom"} =>
           mach'.cpu_inhibit_interrupts = mach.cpu_inhibit_interrupts

C9_InterruptInhibit == [][C9_InhibitStep]_vars

\* The flag still set by a read that resolved a slot after a MAP.
C9_Witness ==
    /\ ev.op = "cpu_read"
    /\ Decoded(mach.log)
    /\ mach.cpu_inhibit_interrupts
    /\ mach.map_mask # 0

-----------------------------------------------------------------------------
(* C10.  Writes under the C64 ROMs go to RAM.                              *)

\* The slot of the last access is resolved as a C64 ROM: BASIC, CHARGEN or KERNAL.
C64RomAccess(e, m) ==
    /\ IsAccess(e)
    /\ e.addr \div 256 \in (\hA0 .. \hBF) \cup (\hD0 .. \hFF)
    /\ m.tab[e.addr \div 256].by = "c64_map_rom"

\* The bytes that differ from their initial pattern in either of two machines.
Cells(m1, m2) == DOMAIN m1.mem \cup DOMAIN m2.mem

\* C10: a cpu_write(A, b) through a slot resolved as a C64 ROM stores b at main_ram[A]
\* and changes no other byte, none of main_ram[0x20000 .. 0x3FFFF] among them, with
\* rom_protect set or clear; a cpu_read(A) through such a slot returns
\* main_ram[0x20000 + A] and changes no byte.
C10_WriteStep ==
    C64RomAccess(ev', mach') =>
        IF ev'.op = "cpu_write"
        THEN /\ Peek(mach', "main_ram", ev'.addr) = ev'.data
             /\ \A c \in Cells(mach, mach') \ {<<"main_ram", ev'.addr>>} :
                    Peek(mach', c[1], c[2]) = Peek(mach, c[1], c[2])
        ELSE /\ ev'.val = Peek(mach, "main_ram", \h20000 + ev'.addr)
             /\ mach'.mem = mach.mem

C10_WriteThrough == [][C10_WriteStep]_vars

\* A byte written at 0xD002 under CHARGEN with rom_protect set: it is in RAM.
C10_Witness ==
    /\ ev.op = "cpu_write"
    /\ ev.addr = \hD002
    /\ mach.rom_protect
    /\ C64RomAccess(ev, mach)
    /\ Peek(mach, "main_ram", \hD002) = ev.data
    /\ Peek(mach, "main_ram", \h2D002) = BRAM_INIT_PATTERN

-----------------------------------------------------------------------------
(* C11.  rom_protect.                                                      *)

IsWrite(e) == e.op \in {"cpu_write", "channel_write"}

\* The slot an access went through: the CPU slot of its address, or its channel's.
SlotOf(e) ==
    IF e.op \in {"channel_read", "channel_write"} THEN 256 + e.ch ELSE e.addr \div 256

\* A slot is on a page of the C65 ROM, physical 0x20000-0x3FFFF: by a VIC-III window
\* or by the linear decoder.
OnC65Rom(m, slot) ==
    \/ m.tab[slot].by = "c65_map_rom"
    \/ m.tab[slot].by = "linear" /\ m.tab[slot].lin \in \h20000 .. \h3FFFF

\* No byte of main_ram differs between two machines.
SameMainRam(m1, m2) ==
    \A c \in Cells(m1, m2) : c[1] = "main_ram" => Peek(m1, c[1], c[2]) = Peek(m2, c[1], c[2])

\* The program neither ended in a fault nor overwrote memory outside its arrays.
Sound(m) == ~m.ub /\ ~m.wild

\* C11: with rom_protect set, a write through a CPU slot or a channel that is on a
\* page of physical 0x20000-0x3FFFF (a VIC-III C65 ROM window, a MAP window, a
\* channel) changes no byte of main_ram: the byte is stored inside black_hole.
C11_WriteStep ==
    (/\ IsWrite(ev')
     /\ mach'.rom_protect
     /\ OnC65Rom(mach', SlotOf(ev'))) =>
        /\ SameMainRam(mach, mach')
        /\ Sound(mach')

C11_RomProtect == [][C11_WriteStep]_vars

-----------------------------------------------------------------------------
(* C12.  The ignored region.                                               *)

IsRead(e) == e.op \in {"cpu_read", "channel_read"}

\* A slot is on a page of the ignored region by the linear decoder.
OnIgnored(m, slot) ==
    m.tab[slot].by = "linear" /\ m.tab[slot].lin \in \h4000000 .. \h7FFFFFF

\* The operation's only effect is one load inside an array, one store inside one.
LoadsWithin(log, buf) ==
    /\ Len(Effects(log)) = 1
    /\ Effects(log)[1].e = "load" /\ Effects(log)[1].s = buf

StoresWithin(log, buf) ==
    /\ Len(Effects(log)) = 1
    /\ Effects(log)[1].e = "store" /\ Effects(log)[1].s = buf

\* C12: on every page of physical 0x4000000-0x7FFFFFF, a read through a channel or a
\* MAP window returns 0xFF loaded from inside the 256 bytes of white_hole_FF, and a
\* write is stored inside the 256 bytes of black_hole and nowhere else.
C12_IgnoredStep ==
    /\ (IsRead(ev') /\ OnIgnored(mach', SlotOf(ev'))) =>
          /\ ev'.val = 255
          /\ LoadsWithin(mach'.log, "white_hole_FF")
          /\ Sound(mach')
    /\ (IsWrite(ev') /\ OnIgnored(mach', SlotOf(ev'))) =>
          /\ StoresWithin(mach'.log, "black_hole")
          /\ Sound(mach')

C12_IgnoredRegion == [][C12_IgnoredStep]_vars

-----------------------------------------------------------------------------
(* C13.  The region table is well formed.                                  *)

\* C13: the decoder table starts at 0, every region has begin < end with begin
\* ending in 0x00 and end in 0xFF, each region begins at the previous one's end + 1
\* and the last ends at 0xFFFFFFF: check_decoder_table returns no error, and
\* memory_init does not abort in either build.
C13_TableWellFormed ==
    ev.op = "memory_init" =>
        /\ check_decoder_table = "NULL"
        /\ ~mach.exited

-----------------------------------------------------------------------------
(* C14.  RAM round-trip.                                                   *)

\* The physical address of an access: a channel's linear address, a CPU address
\* through the MAP window over it (-1: no MAP window there, or a VIC-III ROM
\* window before it).
PhysOf(m, e) ==
    IF e.op \in {"channel_read", "channel_write"} THEN e.addr
    ELSE IF MaskBitSet(m, e.addr \div 256) /\ ~WindowActive(m, e.addr \div 256)
    THEN MapPage(m, e.addr \div 256) + (e.addr % 256)
    ELSE -1

InPlainRam(p) ==
    \/ p >= \h00002 /\ p <= \h1F7FF
    \/ p >= \h40000 /\ p <= \h5FFFF
    \/ p >= \h8000000 /\ p <= \h87FFFFF

\* A read that follows a write of the same address by the same path.
ReadsBack(w, r) ==
    /\ \/ w.op = "cpu_write" /\ r.op = "cpu_read"
       \/ w.op = "channel_write" /\ r.op = "channel_read" /\ w.ch = r.ch
    /\ w.addr = r.addr

\* C14: a write of a byte b to an address in plain RAM (physical 0x00002-0x1F7FF,
\* 0x40000-0x5FFFF or slow RAM 0x8000000-0x87FFFFF, through a MAP window or a
\* channel) followed by a read of the same address returns b.
C14_ReadStep ==
    (ReadsBack(ev, ev') /\ InPlainRam(PhysOf(mach, ev))) => ev'.val = ev.data

C14_RamRoundTrip == [][C14_ReadStep]_vars

-----------------------------------------------------------------------------
(* C15.  The colour RAM and its shadows.                                   *)

InColourHead(p) == p >= \h1F800 /\ p <= \h1FFFF

\* main_ram[0x1F800 + k], colour_ram[k] and c64_colour_ram[k] agree.
ShadowAt(m, k) ==
    /\ Peek(m, "main_ram", \h1F800 + k) = Peek(m, "colour_ram", k)
    /\ Peek(m, "c64_colour_ram", k) = BitOr(BitAnd(Peek(m, "colour_ram", k), \h0F), \hF0)

\* The offsets k at which one of the three arrays was written since memory_init.
ColourTouched(m) ==
    {c[2] - \h1F800 : c \in {d \in DOMAIN m.mem : d[1] = "main_ram" /\ InColourHead(d[2])}}
        \cup {c[2] : c \in {d \in DOMAIN m.mem : d[1] \in {"colour_ram", "c64_colour_ram"}}}

\* What memory_init leaves at every k < 2048.
ColourInit ==
    \A k \in 0 .. 2047 :
        /\ InitByte("main_ram", \h1F800 + k) = InitByte("colour_ram", k)
        /\ InitByte("c64_colour_ram", k) = BitOr(BitAnd(InitByte("colour_ram", k), \h0F), \hF0)

\* For all k < 2048: as memory_init left them where no byte was written since, and
\* at every k written since.
ColourCoherent(m) == ColourInit /\ \A k \in ColourTouched(m) : k < 2048 /\ ShadowAt(m, k)

\* The three bytes a write of b to physical 0x1F800 + k leaves.
ColourWritten(m, k, b) ==
    /\ Peek(m, "main_ram", \h1F800 + k) = b
    /\ Peek(m, "colour_ram", k) = b
    /\ Peek(m, "c64_colour_ram", k) = BitOr(BitAnd(b, \h0F), \hF0)

C15_WriteStep ==
    /\ (IsWrite(ev') /\ InColourHead(PhysOf(mach', ev'))) =>
           ColourWritten(mach', PhysOf(mach', ev') - \h1F800, ev'.data)
    /\ ColourCoherent(mach')

\* C15: a write of b to physical 0x1F800 + k through a MAP window or a channel sets
\* main_ram[0x1F800 + k] = b, colour_ram[k] = b and c64_colour_ram[k] = (b & 0x0F) | 0xF0,
\* and in every state after memory_init, for all k < 2048, main_ram[0x1F800 + k] =
\* colour_ram[k] and c64_colour_ram[k] = (colour_ram[k] & 0x0F) | 0xF0.
C15_ColourShadow == ColourCoherent(mach) /\ [][C15_WriteStep]_vars

\* The last byte of the colour RAM head was written through the channel.
C15_Witness ==
    /\ ev.op = "channel_write" /\ ev.addr = \h1FFFF
    /\ ColourWritten(mach, 2047, ev.data)
    /\ ev.data # BRAM_INIT_PATTERN

-----------------------------------------------------------------------------
(* C16.  Undecoded accesses.                                               *)

\* The operation reached undecoded_reader or undecoded_writer.
Undecoded(log, op_type) ==
    \E i \in DOMAIN log : log[i].e = "undecoded" /\ log[i].s = op_type

\* The access has to resolve its slot first: a CPU slot that is invalidated, a
\* channel last used on another page.
ResolvesFirst(m, e) ==
    IF e.op \in {"channel_read", "channel_write"}
    THEN m.memory_channel_last_usage[e.ch] # BitAnd(e.addr, \hFFFFF00)
    ELSE ~Resolved(m, e.addr \div 256)

\* The slot entries an access leaves alone: all of them when its slot was resolved
\* before, all but that one when the access had to resolve it first.
SlotsKept(m1, m2, e) ==
    /\ \A s \in DOMAIN m1.tab : s # SlotOf(e) => m2.tab[s] = m1.tab[s]
    /\ ~ResolvesFirst(m1, e) => m2.tab = m1.tab

C16_UndecodedStep ==
    /\ (IsRead(ev') /\ Undecoded(mach'.log, "READ") /\ mach'.skip_unhandled_mem \in 1 .. 3) =>
           ev'.val = MEMORY_UNDECODED_PATTERN
    /\ (Undecoded(mach'.log, "READ") \/ Undecoded(mach'.log, "WRITE")) =>
           /\ mach'.mem = mach.mem
           /\ SlotsKept(mach, mach', ev')
           /\ Sound(mach')

\* C16: a read that reaches the undecoded reader, from a CPU slot or a channel,
\* returns 0xFF whenever skip_unhandled_mem ends as 1, 2 or 3, and an undecoded read
\* or write changes no byte of a storage array and no slot entry.
C16_UndecodedRead == [][C16_UndecodedStep]_vars

\* An undecoded read through a slot resolved before, answered "Silent ignore all".
C16_Witness ==
    /\ ev.op = "cpu_read" /\ ev.val = 255
    /\ Undecoded(mach.log, "READ") /\ ~Decoded(mach.log)
    /\ mach.skip_unhandled_mem = 3
    /\ ~mach.exited

-----------------------------------------------------------------------------
(* C17.  cpu_rmw_old_data.                                                 *)

\* Every write callback the operation entered saw v in cpu_rmw_old_data.
CallbacksSaw(m, v) == \A i \in DOMAIN m.rmw_seen : m.rmw_seen[i] = v

\* ev.ch holds old_data and ev.data new_data of a cpu_write_rmw.
C17_RmwStep ==
    /\ ~Stopped(mach') => mach'.cpu_rmw_old_data = CPU_RMW_NO_DATA
    /\ ev'.op = "cpu_write_rmw" =>
           IF mach.tab[SlotOf(ev')].mem_wr_data_p # NULLP
           THEN /\ mach'.rmw_seen = << >>
                /\ mach' = cpu_write(Begin(mach), ev'.addr, ev'.data)
           ELSE /\ mach'.rmw_seen # << >>
                /\ CallbacksSaw(mach', ev'.ch)
    /\ ev'.op = "cpu_write" => CallbacksSaw(mach', CPU_RMW_NO_DATA)

\* C17: cpu_rmw_old_data is -1 in every state outside a cpu_write_rmw callback;
\* during cpu_write_rmw(addr, old, new) on a slot without a direct write pointer every
\* write callback, the one reached through the resolver included, sees
\* cpu_rmw_old_data = old; on a slot with a direct write pointer cpu_write_rmw
\* stores new as cpu_write does and never sets the variable.
C17_RmwScope == mach.cpu_rmw_old_data = CPU_RMW_NO_DATA /\ [][C17_RmwStep]_vars

\* A cpu_write_rmw resolved its slot and went on to the colour RAM writer: the
\* resolver and the writer both saw the old data, and the variable is -1 again.
C17_Witness ==
    /\ ev.op = "cpu_write_rmw" /\ Decoded(mach.log)
    /\ Len(mach.rmw_seen) = 2 /\ CallbacksSaw(mach, ev.ch)
    /\ mach.cpu_rmw_old_data = CPU_RMW_NO_DATA /\ ~Stopped(mach)

-----------------------------------------------------------------------------
(* C18.  Quad-byte accesses.                                               *)

\* Byte i of a 32-bit value.
ByteOf(v, i) == (v \div (256 ^ i)) % 256

\* The little-endian combination of four bytes, as a Uint32.
LittleEndian(b0, b1, b2, b3) ==
    b0 + 256 * b1 + 65536 * b2 + 16777216 * (IF b3 >= 128 THEN b3 - 256 ELSE b3)

\* cpu_read of the next address after the reads before it; the bytes read so far.
ThenRead(r0, addr) ==
    [m |-> cpu_read(r0.m, addr).m, bytes |-> Append(r0.bytes, cpu_read(r0.m, addr).data)]

FourReads(m, A) ==
    ThenRead(ThenRead(ThenRead(ThenRead([m |-> m, bytes |-> << >>], A),
                               (A + 1) % 65536),
                      (A + 2) % 65536),
             (A + 3) % 65536)

FourWrites(m, A, v) ==
    cpu_write(cpu_write(cpu_write(cpu_write(m, A, ByteOf(v, 0)),
                                  (A + 1) % 65536, ByteOf(v, 1)),
                        (A + 2) % 65536, ByteOf(v, 2)),
              (A + 3) % 65536, ByteOf(v, 3))

QuadOf(r) == LittleEndian(r.bytes[1], r.bytes[2], r.bytes[3], r.bytes[4])

C18_QuadStep ==
    /\ ev'.op = "cpu_read_qbyte" =>
           /\ mach' = FourReads(Begin(mach), ev'.addr).m
           /\ Stopped(mach') \/ ev'.val = QuadOf(FourReads(Begin(mach), ev'.addr))
    /\ ev'.op = "cpu_write_qbyte" =>
           mach' = FourWrites(Begin(mach), ev'.addr, ev'.data)

\* C18: cpu_read_qbyte(A) is the little-endian combination of cpu_read((A + i) mod
\* 2^16), i = 0..3, and cpu_write_qbyte(A, v) does what cpu_write((A + i) mod 2^16,
\* byte i of v), i = 0..3, do in that order, the slot chosen anew for each byte.
C18_QuadByte == [][C18_QuadStep]_vars

\* 0x11223344 written at 0x00FE is read back, its bytes in main_ram at 0x00FE,
\* 0x00FF, 0x0100 and 0x0101.
C18_Witness ==
    /\ ev.op = "cpu_read_qbyte" /\ ev.addr = \h00FE /\ ev.val = \h11223344
    /\ Peek(mach, "main_ram", \h00FE) = \h44 /\ Peek(mach, "main_ram", \h00FF) = \h33
    /\ Peek(mach, "main_ram", \h0100) = \h22 /\ Peek(mach, "main_ram", \h0101) = \h11

-----------------------------------------------------------------------------
(* C19.  Every slot can be dispatched.                                     *)

\* A slot entry has a read pointer or a read function, and a write pointer or a
\* write function.
Dispatchable(e) ==
    /\ e.mem_rd_data_p # NULLP \/ e.mem_rd_func_p # NULLF
    /\ e.mem_wr_data_p # NULLP \/ e.mem_wr_func_p # NULLF

\* The operation called a function pointer that is NULL.
CalledNull(log) == \E i \in DOMAIN log : log[i].e = "call_null"

\* C19: after memory_init, whatever MAP opcodes (megabyte selections up to 0xFF
\* included), port writes, VIC-III ROM updates, invalidations and accesses follow,
\* every CPU slot has a read pointer or a read function and a write pointer or a
\* write function, and no access calls through an unset entry.
C19_Coverage ==
    /\ \A slot \in Tracked(mach) : Dispatchable(mach.tab[slot])
    /\ ~CalledNull(mach.log)

-----------------------------------------------------------------------------
(* C20.  c64_memlayout follows the I/O port.                               *)

\* c64_memlayout is the table entry of the port's index.
LayoutOfPort(m) == m.c64_memlayout = c64_memlayout_table_by_memcfgreg[LayoutIndex(m) + 1]

\* Writing 64 or 65 to address 0 sets force_fast and leaves the port alone.
ForceFast(e) == e.addr % 2 = 0 /\ e.data \in {64, 65}

\* The physical address a write went to, by the slot it went through: the page the
\* linear decoder resolved the slot to, or the CPU's own address where the slot is
\* unmapped RAM (-1: a ROM shadow or the legacy I/O).
WritePhys(m, e) ==
    IF m.tab[SlotOf(e)].by = "linear" THEN m.tab[SlotOf(e)].lin + (e.addr % 256)
    ELSE IF m.tab[SlotOf(e)].by = "c6x_map_ram" THEN e.addr
    ELSE -1

\* A write to address 0 or 1 as the CPU or the bus master names it.
NamedPortWrite(e) == IsWrite(e) /\ e.addr \in {0, 1} /\ ~ForceFast(e)

\* A write that resolves to physical address 0 or 1.
PhysPortWrite(m, e) == IsWrite(e) /\ WritePhys(m, e) \in {0, 1} /\ ~ForceFast(e)

C20_NamedStep ==
    /\ NamedPortWrite(ev') => LayoutOfPort(mach')
    /\ LayoutOfPort(mach) => LayoutOfPort(mach')

C20_PhysStep ==
    /\ PhysPortWrite(mach', ev') => LayoutOfPort(mach')
    /\ LayoutOfPort(mach) => LayoutOfPort(mach')

-----------------------------------------------------------------------------
(* C21.  The C64 layout after memory_init.                                 *)

BankedSlots == (\hA0 .. \hBF) \cup (\hD0 .. \hDF) \cup (\hE0 .. \hFF)

\* C21: right after memory_init, cpu_io_port = {0, 0} and no port write yet,
\* c64_memlayout is C64_D000_RAM_VISIBLE, and the first decode of a slot of
\* 0xA0-0xBF, 0xD0-0xDF, 0xE0-0xFF (no MAP, no VIC-III ROM) yields plain RAM.
C21_ResetLayout ==
    ev.op = "memory_init" =>
        /\ mach.cpu_io_port[0] = 0 /\ mach.cpu_io_port[1] = 0
        /\ mach.c64_memlayout = C64_D000_RAM_VISIBLE
        /\ \A slot \in Tracked(mach) \cap BankedSlots :
               Fresh(mach, slot * 256).tab[slot].by = "c6x_map_ram"

-----------------------------------------------------------------------------
(* C22.  legacy_io_is_mapped.                                              *)

\* The slots of 0xD000-0xDFFF that are resolved to the legacy I/O callbacks.
OnLegacyIo(m) == {slot \in Tracked(m) \cap (\hD0 .. \hDF) : m.tab[slot].by = "map_legacy_io"}

\* C22: in every state after memory_init, the hypervisor's direct
\* memory_invalidate_mapper(0x80, 0xFF) calls included, legacy_io_is_mapped is set
\* if and only if the slots 0xD0-0xDF are resolved to the legacy I/O callbacks.
C22_LegacyIoFlag ==
    mach.legacy_io_is_mapped <=> OnLegacyIo(mach) = Tracked(mach) \cap (\hD0 .. \hDF)

-----------------------------------------------------------------------------
(* C23.  The write pointer of the Rom policy.                              *)

\* The slots the linear decoder resolved to a page of the C65 ROM.
LinearRom(m) ==
    {slot \in Tracked(m) : m.tab[slot].by = "linear" /\ m.tab[slot].lin \in \h20000 .. \h3FFFF}

\* The byte of its buffer a slot's write pointer addresses for the low byte lo of
\* an address: a CPU slot is indexed by the 16-bit address, a channel by lo.
WriteIndex(m, slot, lo) ==
    m.tab[slot].mem_wr_data_p.off + (IF slot < 256 THEN slot * 256 ELSE 0) + lo

\* C23: under rom_protect, the write pointer the linear decoder resolves for a page of
\* 0x20000-0x3FFFF, for a CPU slot or a channel, addresses byte (addr & 0xFF) of
\* black_hole, so a protected write lands inside the 256 bytes of the sink.
C23_BlackHolePtr ==
    mach.rom_protect =>
        \A slot \in LinearRom(mach) :
            /\ mach.tab[slot].mem_wr_data_p # NULLP
            /\ mach.tab[slot].mem_wr_data_p.buf = "black_hole"
            /\ \A lo \in {0, 2, 255} : WriteIndex(mach, slot, lo) = lo

-----------------------------------------------------------------------------
(* C24.  The region lookup.                                                *)

\* The channel slots a specification keeps.
ChannelSlots(m) == {slot \in DOMAIN m.tab : slot >= 256}

\* Position q of the table covers the page, and the slot's offsets are the
\* page's distance from the region's begin.
CoveredAt(m, slot, q) ==
    /\ InTable(q)
    /\ decoder_table[q].begin <= m.tab[slot].lin
    /\ m.tab[slot].lin <= decoder_table[q].end
    /\ m.tab[slot].mem_rd_ofs = m.tab[slot].lin - decoder_table[q].begin
    /\ m.tab[slot].mem_wr_ofs = m.tab[slot].lin - decoder_table[q].begin

\* The last operation's scan stayed inside the table.
ScanInTable(log) == \A i \in 1 .. Len(log) : log[i].e # "scan_left_table"

\* C24: whatever the hint a walk starts from, it ends inside the table on the region
\* with begin <= page <= end, the same region as a walk from the first entry, and
\* rd_ofs and wr_ofs are page - begin.
C24_RegionLookup ==
    /\ ScanInTable(mach.log)
    /\ \A slot \in ChannelSlots(mach) :
           mach.tab[slot].by = "linear" =>
               /\ CoveredAt(mach, slot, mach.memory_channel_last_dectab_p[slot - 256])
               /\ mach.memory_channel_last_dectab_p[slot - 256] =
                      FindRegion(mach.tab[slot].lin, 1)

-----------------------------------------------------------------------------
(* C25.  The resolver.                                                     *)

\* How many times the operation ran the logical decoder.
RECURSIVE DecodeCount(_)
DecodeCount(log) ==
    IF log = << >> THEN 0
    ELSE (IF Head(log).e = "decode" THEN 1 ELSE 0) + DecodeCount(Tail(log))

\* The entry no longer dispatches a read, a write, to the resolver.
ReadResolved(e) ==
    \/ e.mem_rd_data_p # NULLP
    \/ e.mem_rd_func_p \notin {NULLF, Fn("memory_resolver_reader")}
WriteResolved(e) ==
    \/ e.mem_wr_data_p # NULLP
    \/ e.mem_wr_func_p \notin {NULLF, Fn("memory_resolver_writer")}

\* The access is on a slot that is in the invalidated state.
OnInvalidated(m, e) ==
    /\ e.op \in {"cpu_read", "cpu_write"}
    /\ ~Stopped(m)
    /\ m.tab[e.addr \div 256].mem_rd_func_p = Fn("memory_resolver_reader")
    /\ m.tab[e.addr \div 256].mem_rd_data_p = NULLP
    /\ m.tab[e.addr \div 256].mem_wr_func_p = Fn("memory_resolver_writer")
    /\ m.tab[e.addr \div 256].mem_wr_data_p = NULLP

\* C25: a cpu_read or cpu_write on an invalidated slot runs the logical decoder
\* exactly once and then completes the access (a load, a store or a callback); after
\* it the slot's entry for that kind of access is a direct pointer or a callback
\* other than the resolver.
C25_ResolverStep ==
    OnInvalidated(mach, ev') =>
        /\ DecodeCount(mach'.log) = 1
        /\ mach'.log[1].e = "decode"
        /\ Len(Effects(mach'.log)) >= 1
        /\ IsRead(ev')  => ReadResolved(mach'.tab[SlotOf(ev')])
        /\ IsWrite(ev') => WriteResolved(mach'.tab[SlotOf(ev')])

C25_Resolver == [][C25_ResolverStep]_vars

\* A write to 0xD002 went through the resolver and reached the legacy I/O callback.
C25_Witness ==
    /\ ev.op = "cpu_write" /\ ev.addr = \hD002
    /\ DecodeCount(mach.log) = 1
    /\ \E i \in DOMAIN mach.log : mach.log[i].e = "legacy_io_writer"

-----------------------------------------------------------------------------
(* C26.  memory_invalidate_mapper.                                         *)

\* The entry is in the invalidated state.
IsInvalidated(e) ==
    /\ e.mem_rd_data_p = NULLP /\ e.mem_rd_func_p = Fn("memory_resolver_reader")
    /\ e.mem_wr_data_p = NULLP /\ e.mem_wr_func_p = Fn("memory_resolver_writer")

\* The machine without its slot table and without the record of the last operation.
BesideSlots(m) == [m EXCEPT !.tab = << >>, !.log = << >>, !.rmw_seen = << >>]

\* C26: memory_invalidate_mapper(start, last) with start <= last <= 0xFF puts every
\* slot of start..last into the invalidated state and changes nothing else: no CPU
\* slot outside the range, no channel entry, no channel cache, nothing of the mapping
\* state and no storage array.
C26_InvalidateStep ==
    ev'.op = "memory_invalidate_mapper" =>
        /\ \A slot \in DOMAIN mach.tab :
               IF slot \in ev'.a .. ev'.x
               THEN IsInvalidated(mach'.tab[slot])
               ELSE mach'.tab[slot] = mach.tab[slot]
        /\ BesideSlots(mach') = BesideSlots(mach)

C26_InvalidateFrame == [][C26_InvalidateStep]_vars

\* memory_invalidate_mapper(0x7F, 0x80) undid a resolved 0x7F and kept the resolved
\* slot 0xE0 and channel 2.
C26_Witness ==
    /\ ev.op = "memory_invalidate_mapper" /\ ev.a = \h7F /\ ev.x = \h80
    /\ IsInvalidated(mach.tab[\h7F])
    /\ mach.tab[\hE0].by \notin {"invalidated", "none"}
    /\ mach.tab[258].by = "linear"
    /\ mach.memory_channel_last_usage[2] = \h1000

-----------------------------------------------------------------------------
(* C27.  What a port write invalidates.                                    *)

\* The step put a resolved slot back into the invalidated state.
Undone(m1, m2, slot) == Resolved(m1, slot) /\ m1.tab[slot].by # "none" /\ ~Resolved(m2, slot)

\* BASIC is visible: by the layout index (3 or 7), and by the decoder's own test.
BasicByIndex(m) == LayoutIndex(m) \in {3, 7}
BasicByTest(m)  == BitAnd(m.c64_memlayout, C64_BASIC_VISIBLE) # 0

\* The BASIC visibility changed, in either sense.
BasicChanged(m1, m2) ==
    \/ BasicByIndex(m1) # BasicByIndex(m2)
    \/ BasicByTest(m1) # BasicByTest(m2)

D000Changed(m1, m2) ==
    BitAnd(m1.c64_memlayout, C64_D000_MASK) # BitAnd(m2.c64_memlayout, C64_D000_MASK)

KernalChanged(m1, m2) ==
    BitAnd(m1.c64_memlayout, C64_KERNAL_VISIBLE) # BitAnd(m2.c64_memlayout, C64_KERNAL_VISIBLE)

\* A write to the CPU port through slot 0.
IsPortWrite(e) == e.op = "cpu_write" /\ e.addr \in {0, 1} /\ ~(e.addr = 0 /\ e.data \in {64, 65})

\* C27: a port write invalidates 0xA0-0xBF only if the BASIC visibility changed and
\* map_mask bit 0x20 is clear, 0xD0-0xDF only if the D000 selection changed and bit
\* 0x40 is clear, 0xE0-0xFF only if the KERNAL visibility changed and bit 0x80 is
\* clear; never 0x00-0x9F or 0xC0-0xCF; and nothing when c64_memlayout stays.
C27_PortStep ==
    IsPortWrite(ev') =>
        \A slot \in Tracked(mach) :
            Undone(mach, mach', slot) =>
                /\ mach'.c64_memlayout # mach.c64_memlayout
                /\ slot \in (\hA0 .. \hBF) \cup (\hD0 .. \hFF)
                /\ ~MaskBitSet(mach, slot)
                /\ slot \in \hA0 .. \hBF => BasicChanged(mach, mach')
                /\ slot \in \hD0 .. \hDF => D000Changed(mach, mach')
                /\ slot \in \hE0 .. \hFF => KernalChanged(mach, mach')

C27_PortScope == [][C27_PortStep]_vars

-----------------------------------------------------------------------------
(* C28.  memory_set_vic3_rom_mapping.                                      *)

\* cfg & 0xB8 in user mode, 0 in hypervisor mode, bit by bit.
EffectiveCfg(m, cfg) ==
    IF m.in_hypervisor THEN 0
    ELSE (IF BitSet(cfg, 8) THEN 8 ELSE 0) + (IF BitSet(cfg, 16) THEN 16 ELSE 0)
         + (IF BitSet(cfg, 32) THEN 32 ELSE 0) + (IF BitSet(cfg, 128) THEN 128 ELSE 0)

\* The machine beside its slots, the register and the remembered value.
BesideRomMap(m) == [BesideSlots(m) EXCEPT !.old_cfg = 0, !.vic_registers_30 = 0]

\* C28: memory_set_vic3_rom_mapping(cfg) remembers the effective value (cfg & 0xB8
\* in user mode, 0 in hypervisor mode); the slots of each window whose bit (0x08,
\* 0x10, 0x20, 0x80) differs from the previous effective value are invalidated,
\* every other slot (unchanged windows, 0x00-0x7F, 0xD0-0xDF) is left as it was.
C28_RomMapStep ==
    ev'.op = "vic3" =>
        /\ mach'.old_cfg = EffectiveCfg(mach, ev'.data)
        /\ \A slot \in DOMAIN mach.tab :
               IF BitSet(mach.old_cfg, WindowBit(slot)) #
                      BitSet(EffectiveCfg(mach, ev'.data), WindowBit(slot))
               THEN IsInvalidated(mach'.tab[slot])
               ELSE mach'.tab[slot] = mach.tab[slot]
        /\ BesideRomMap(mach') = BesideRomMap(mach)

C28_RomMapFrame == [][C28_RomMapStep]_vars

\* A write of 0x50 after 0x40: only the window at 0xA000 was undone.
C28_Witness ==
    /\ ev.op = "vic3" /\ ev.data = \h50 /\ ~mach.in_hypervisor
    /\ mach.old_cfg = \h10
    /\ IsInvalidated(mach.tab[\hA0])
    /\ \A slot \in {\h80, \hC0, \hD0, \hE0} : mach.tab[slot].by \notin {"invalidated", "none"}

-----------------------------------------------------------------------------
(* C29.  The channels' cache.                                              *)

IsChannelOp(e) == e.op \in {"channel_read", "channel_write"}

\* The 256-byte page of a linear address.
PageOf(lin) == lin - (lin % 256)

\* The caches of every channel but ch are the same in both machines.
OtherCachesKept(m1, m2, ch) ==
    \A a \in Channels \ {ch} :
        /\ m2.memory_channel_last_usage[a] = m1.memory_channel_last_usage[a]
        /\ m2.memory_channel_last_dectab_p[a] = m1.memory_channel_last_dectab_p[a]

\* An access on the page the channel was on last: nothing is decoded.
SamePageStep ==
    (IsChannelOp(ev') /\ PageOf(ev'.addr) = mach.memory_channel_last_usage[ev'.ch]) =>
        /\ mach'.tab[SlotOf(ev')] = mach.tab[SlotOf(ev')]
        /\ mach'.memory_channel_last_usage = mach.memory_channel_last_usage
        /\ mach'.memory_channel_last_dectab_p = mach.memory_channel_last_dectab_p

\* An access on another page: the page is decoded, from the channel's hint, and the
\* page and the region found are remembered.
OtherPageStep ==
    (IsChannelOp(ev') /\ PageOf(ev'.addr) # mach.memory_channel_last_usage[ev'.ch]) =>
        /\ mach'.tab[SlotOf(ev')].by = "linear"
        /\ mach'.tab[SlotOf(ev')].lin = PageOf(ev'.addr)
        /\ mach'.memory_channel_last_usage[ev'.ch] = PageOf(ev'.addr)
        /\ mach'.memory_channel_last_dectab_p[ev'.ch] =
               FindRegion(PageOf(ev'.addr), mach.memory_channel_last_dectab_p[ev'.ch])
        /\ CoveredAt(mach', SlotOf(ev'), mach'.memory_channel_last_dectab_p[ev'.ch])

\* A channel read leaves every other slot entry and every other channel's cache.
ChannelReadFrame ==
    ev'.op = "channel_read" =>
        /\ \A s \in DOMAIN mach.tab \ {SlotOf(ev')} : mach'.tab[s] = mach.tab[s]
        /\ OtherCachesKept(mach, mach', ev'.ch)

\* After memory_invalidate_channels no channel is on an aligned page, and each
\* starts its next walk from the first region.
InvalidateChannelsStep ==
    ev'.op = "memory_invalidate_channels" =>
        /\ \A a \in Channels :
               /\ mach'.memory_channel_last_usage[a] % 256 # 0
               /\ mach'.memory_channel_last_dectab_p[a] = 1
        /\ mach'.tab = mach.tab

\* C29: an access on channel c to L runs the linear decoder exactly when L's page
\* differs from the channel's last page, and then remembers the page and the hint; a
\* channel read changes only its own slot entry and cache; after
\* memory_invalidate_channels every channel decodes the page of its next access,
\* whatever it is, from the first region.
C29_ChannelStep ==
    /\ SamePageStep
    /\ OtherPageStep
    /\ ChannelReadFrame
    /\ InvalidateChannelsStep

C29_ChannelCache == [][C29_ChannelStep]_vars

\* Channel 2 moved from the C65 ROM to slow RAM while channel 1 stayed on main RAM
\* and the CPU's slot 0xE0 stayed resolved.
C29_Witness ==
    /\ ev.op = "channel_read" /\ ev.ch = 2 /\ ev.addr = \h8000002
    /\ mach.memory_channel_last_usage[2] = \h8000000
    /\ mach.memory_channel_last_dectab_p[2] = 8
    /\ mach.memory_channel_last_usage[1] = \h1000
    /\ mach.memory_channel_last_dectab_p[1] = 2
    /\ mach.tab[\hE0].by \notin {"invalidated", "none"}

-----------------------------------------------------------------------------
(* C30.  Force-fast.                                                       *)

\* The speed governor was signalled by the operation.
SpeedSet(log) == \E i \in DOMAIN log : log[i].e = "machine_set_speed"

\* The port, the layout and the speed flag are the same in both machines.
PortKept(m1, m2) ==
    /\ m2.cpu_io_port = m1.cpu_io_port
    /\ m2.c64_memlayout = m1.c64_memlayout

\* A write of 64 or 65 that resolves to physical address 0.
FastStep ==
    (IsWrite(ev') /\ WritePhys(mach', ev') = 0 /\ ev'.data \in {64, 65}) =>
        /\ mach'.force_fast = ev'.data % 2
        /\ SpeedSet(mach'.log) <=> mach'.force_fast # mach.force_fast
        /\ PortKept(mach, mach')
        /\ mach'.mem = mach.mem
        /\ SlotsKept(mach, mach', ev')

\* A write of 64 or 65 to physical 1, or of another value to physical 0.
OrdinaryPortStep ==
    (/\ IsWrite(ev')
     /\ \/ WritePhys(mach', ev') = 1
        \/ WritePhys(mach', ev') = 0 /\ ev'.data \notin {64, 65}) =>
        /\ mach'.cpu_io_port[WritePhys(mach', ev')] = ev'.data
        /\ mach'.force_fast = mach.force_fast
        /\ ~SpeedSet(mach'.log)

\* A write to another offset of physical page 0.
PlainPageStep ==
    (IsWrite(ev') /\ WritePhys(mach', ev') \in 2 .. 255) =>
        /\ Peek(mach', "main_ram", WritePhys(mach', ev')) = ev'.data
        /\ \A c \in Cells(mach, mach') :
               c # <<"main_ram", WritePhys(mach', ev')>> =>
                   Peek(mach', c[1], c[2]) = Peek(mach, c[1], c[2])
        /\ PortKept(mach, mach')
        /\ mach'.force_fast = mach.force_fast
        /\ ~SpeedSet(mach'.log)
        /\ SlotsKept(mach, mach', ev')

\* C30: a write of 64 or 65 to physical address 0 sets force_fast to bit 0 of the
\* data, signals the speed governor only when the value changed, and leaves
\* cpu_io_port, c64_memlayout, main_ram[0] and the slot entries; a write of 64 or 65
\* to address 1, and any other value to address 0, updates cpu_io_port; a write to
\* any other offset of physical page 0 only stores the byte in main_ram.
C30_ForceFastStep ==
    /\ FastStep
    /\ OrdinaryPortStep
    /\ PlainPageStep

C30_ForceFast == [][C30_ForceFastStep]_vars

\* 65 written through the MAP window at 0xE000 switched force-fast on, with 64 in
\* the data register of the port.
C30_Witness ==
    /\ ev.op = "cpu_write" /\ ev.addr = \hE000 /\ ev.data = 65
    /\ mach.tab[\hE0].by = "linear" /\ mach.tab[\hE0].lin = 0
    /\ mach.force_fast = 1
    /\ SpeedSet(mach.log)
    /\ mach.cpu_io_port[1] = 64

-----------------------------------------------------------------------------
(* C31.  The address of the undecoded diagnostic.                          *)

\* The addresses the operation handed to undecoded_interaction.
DiagnosticAddrs(log) == {log[i].a : i \in {j \in DOMAIN log : log[j].e = "undecoded"}}

\* C31: for every undecoded read or write, through a MAP window or through a
\* channel, the address handed to undecoded_interaction is the full 28-bit physical
\* address of the byte accessed.
C31_DiagnosticStep ==
    ((IsRead(ev') \/ IsWrite(ev')) /\ DiagnosticAddrs(mach'.log) # {}) =>
        DiagnosticAddrs(mach'.log) = {PhysOf(mach', ev')}

C31_DiagnosticAddr == [][C31_DiagnosticStep]_vars

-----------------------------------------------------------------------------
(* C32.  The undecoded policy.                                             *)

\* The operation opened the question window.
Prompted(log) == \E i \in DOMAIN log : log[i].e = "QUESTION_WINDOW"

\* The operation reached undecoded_interaction.
ReachedUndecoded(log) == \E i \in DOMAIN log : log[i].e = "undecoded"

\* C32: skip_unhandled_mem changes only inside an undecoded access and only from 0
\* or 1, where every undecoded access prompts the user; from 2 or 3 no access prompts
\* or changes it; with 3, channel_read(DEBUGGER, 0x0100000) returns 0xFF and the
\* policy is still 3.
C32_PolicyStep ==
    /\ mach'.skip_unhandled_mem # mach.skip_unhandled_mem =>
           /\ ReachedUndecoded(mach'.log)
           /\ mach.skip_unhandled_mem \in {0, 1}
    /\ (ReachedUndecoded(mach'.log) /\ mach.skip_unhandled_mem \in {0, 1}) =>
           Prompted(mach'.log)
    /\ mach.skip_unhandled_mem \in {2, 3} =>
           /\ ~Prompted(mach'.log)
           /\ mach'.skip_unhandled_mem = mach.skip_unhandled_mem
    /\ (/\ mach.skip_unhandled_mem = 3
        /\ ev'.op = "channel_read" /\ ev'.ch = DEBUGGER_MEMORY_CHANNEL
        /\ ev'.addr = \h100000) =>
           /\ ev'.val = 255
           /\ ReachedUndecoded(mach'.log)
           /\ mach'.skip_unhandled_mem = 3

C32_Policy == [][C32_PolicyStep]_vars

\* The debugger read 0x0100000 under "Silent ignore all", on a page its channel had
\* decoded before: 0xFF, no question.
C32_Witness ==
    /\ ev.op = "channel_read" /\ ev.ch = DEBUGGER_MEMORY_CHANNEL /\ ev.addr = \h100000
    /\ ev.val = 255
    /\ mach.skip_unhandled_mem = 3
    /\ ReachedUndecoded(mach.log) /\ ~Prompted(mach.log)

-----------------------------------------------------------------------------
(* C33.  The port's mirror in main_ram.                                    *)

\* C33: in every state after memory_init, main_ram[0] is cpu_io_port[0] and
\* main_ram[1] is cpu_io_port[1]: no write path but update_cpu_io_port stores there,
\* so a read of physical 0 or 1 returns the port register.
C33_PortMirror ==
    /\ Peek(mach, "main_ram", 0) = mach.cpu_io_port[0]
    /\ Peek(mach, "main_ram", 1) = mach.cpu_io_port[1]

\* 65 written to address 0 after 7 and 64 were written to the port: force-fast is
\* on and both bytes still read back as the port.
C33_Witness ==
    /\ ev.op = "cpu_write" /\ ev.addr = 0 /\ ev.data = 65
    /\ mach.force_fast = 1
    /\ mach.cpu_io_port[0] = 7 /\ Peek(mach, "main_ram", 0) = 7
    /\ mach.cpu_io_port[1] = 64 /\ Peek(mach, "main_ram", 1) = 64

====
